---- MODULE Spec2Model ----
(***************************************************************************)
(* A model of the core of git-cinnabar's Mercurial bridge:                 *)
(*   - src/src/store.rs: changeset metadata, reconstruction of raw         *)
(*     Mercurial changesets from a Git commit and its metadata;            *)
(*   - src/helper/hg_connect_http.rs: the HTTP wire client (argument       *)
(*     chunking, redirect policy, reauth retry, response streaming).       *)
(* Byte strings are sequences of byte values (integers 0..255).            *)
(***************************************************************************)
EXTENDS Integers, Sequences, FiniteSets, TLC

VARIABLES
    \* ---- store.rs: reconstruction of a changeset
    commit,     \* the parsed Git commit (author, committer, body, parents)
    raw,        \* the true raw Mercurial changeset (bytes)
    node,       \* the changeset id the metadata records
    meta,       \* Option<GitChangesetMetadata>
    via,        \* how the metadata was obtained: "generate" | "read" | "none"
    text,       \* from_metadata's `changeset` buffer
    pretext,    \* the buffer as it entered the null-truncation loop
    tested,     \* candidates hashed by the loop so far: <<bytes, id>> pairs
    popped,     \* the bytes of every candidate the loop popped a null from
    result,     \* what from_metadata gave: Ok(Option<RawHgChangeset>) or Panic
    spc,        \* position in the store scenario
    \* ---- hg_connect_http.rs: start_command_request
    httpheader,     \* the httpheader capability as parsed (0: absent or not a number)
    hgargs,         \* the command's arguments: <<name, value>> pairs
    overflowChecks, \* the build panics on integer overflow (debug) or wraps (release)
    remaining,      \* `args`: the part of the encoded string not yet in a header
    num,            \* `num`: the number of the next X-HgArg header
    headers,        \* `headers`: <<name, value>> pairs pushed so far
    request,        \* Option of the request built: its URL query and its headers
    apc,            \* position in start_command_request
    \* ---- hg_connect_http.rs: HttpClient, HttpRequest, HttpResponse
    follow_config,    \* http_follow_config
    initial_request,  \* HttpClient::initial_request
    created,          \* requests the client has created
    req,              \* Option of the HttpRequest being executed
    attempt,          \* execute_once calls made by the current execute
    fills,            \* credential_fill calls made by the current execute
    failures,         \* the Err results execute_once gave the current execute
    hpc,              \* position of the calling thread
    wpc,              \* position of the worker thread
    slotFollow,       \* CURLOPT_FOLLOWLOCATION of the slot's handle
    first,            \* HttpThreadData::first
    chan,             \* the mpsc channel: messages sent and not yet received
    senderAlive,      \* the Sender has not been dropped
    receiverAlive,    \* the Receiver has not been dropped
    net,              \* what the transfer will do: status, redirects, result, chunks to come
    info,             \* Option of the HttpResponseInfo the caller holds
    cursor,           \* HttpResponse::cursor: bytes of the last chunk not yet read
    sent,             \* the chunks the write callback was given, in order
    got,              \* the body bytes read() has returned to the caller
    eof,              \* read() has returned 0 for a non-empty buffer
    \* ---- hg_connect_http.rs: the body of a request
    body,             \* the bytes of HttpRequest::body (empty without body)
    bodyPos,          \* the position of the body's reader
    postSize,         \* CURLOPT_POSTFIELDSIZE_LARGE as last set
    wire,             \* the body bytes the current attempt has uploaded
    \* ---- hg_connect_http.rs: HgHttpConnection's URL
    url,              \* HgHttpConnection::url, the base of the command URLs
    command_url,      \* the URL of the request in hand
    warnings,         \* the URLs of the "warning: redirecting to" lines
    \* ---- store.rs: CHANGESET_HEADS
    heads,            \* ChangesetHeads::heads, entries in the order of their ids
    generation,       \* ChangesetHeads::generation
    metadata,         \* the commit at refs/cinnabar/metadata^1, if any
    output,           \* what the last operation sent to its file descriptor
    lastOp,           \* the last operation on the head set, with its changeset
                      \* and, for add and remove, its entry before the operation
    assigned,         \* the largest ordinal an add has given in the process
    cpc,              \* "run", or "panic" once an operation has panicked
    \* ---- store.rs: callers of the head set on several threads
    owner,            \* the thread that holds the mutex of CHANGESET_HEADS, or 0
    tpc,              \* where each thread is in its operation
    job,              \* the operation of each thread
    local,            \* each thread's locals: parents to come, parents written
    stable,           \* the heads as the last finished operation left them
    calls,            \* the number of operations called
    \* ---- hg_connect_http.rs: get_http_connection and HgHttpBundle
    opc,              \* where the opening of the connection is
    http_resp,        \* the HttpResponse: its cursor and the chunks to come
    header,           \* the bytes read_at_most has put in header
    kind,             \* what get_http_connection returns: "bundle" or "wire"
    caps,             \* the bytes given to HgCapabilities::new_from
    chain,            \* getbundle: what is left of Cursor::new(self.header)
    fed,              \* the bytes the decompressor has read
    served,           \* the body the server sends for the first request
    \* ---- hg_connect_http.rs: push_command and changegroup_command
    kpc,              \* where the command is
    command,          \* the name of the command
    content_type,     \* HttpResponse::content_type()
    response,         \* what the caller is given: response, or out
    diag,             \* what has been written to stderr
    lineStart,        \* PrefixWriter: the next byte starts a line
    comp_len,         \* changegroup_command: the length of the name
    comp,             \* changegroup_command: the name of the compression
    payload,          \* the bytes the decoder has read
    \* ---- store.rs: RawGitChangesetMetadata and ChangesetExtra on their own
    blob,             \* the bytes of a metadata blob
    sets,             \* the set() calls made on the ChangesetExtra, in order
    xdata,            \* ChangesetExtra::data
    dumped,           \* Option of what dump_into has written
    redumped,         \* Option of the dump of ChangesetExtra::from(dumped)
    xpc               \* where the use of the ChangesetExtra is

storeVars == <<commit, raw, node, meta, via, text, pretext, tested, popped, result, spc>>

argsVars == <<httpheader, hgargs, overflowChecks, remaining, num, headers, request, apc>>

httpVars == <<follow_config, initial_request, created, req, attempt, fills, failures,
              hpc, wpc, slotFollow, first, chan, senderAlive, receiverAlive, net,
              info, cursor, sent, got, eof>>

uploadVars == <<body, bodyPos, postSize, wire>>

urlVars == <<url, command_url, warnings>>

headsVars == <<heads, generation, metadata, output, lastOp, assigned, cpc>>

lockVars == <<owner, tpc, job, local, stable, calls>>

openVars == <<opc, http_resp, header, kind, caps, chain, fed, served>>

cmdVars ==
    <<kpc, command, content_type, response, diag, lineStart, comp_len, comp, payload>>

codecVars == <<blob, sets, xdata, dumped, redumped, xpc>>

vars ==
    <<storeVars, argsVars, httpVars, uploadVars, urlVars, headsVars, lockVars,
      openVars, cmdVars, codecVars>>

\* What the store scenario, start_command_request and the HTTP client each
\* leave alone.
notStoreVars ==
    <<argsVars, httpVars, uploadVars, urlVars, headsVars, lockVars, openVars,
      cmdVars, codecVars>>
notArgsVars ==
    <<storeVars, httpVars, uploadVars, urlVars, headsVars, lockVars, openVars,
      cmdVars, codecVars>>
notHttpVars ==
    <<storeVars, argsVars, headsVars, lockVars, openVars, cmdVars, codecVars>>
notHeadsVars ==
    <<storeVars, argsVars, httpVars, uploadVars, urlVars, openVars, cmdVars,
      codecVars>>
notOpenVars ==
    <<storeVars, argsVars, httpVars, uploadVars, headsVars, lockVars, cmdVars,
      codecVars>>
notCmdVars ==
    <<storeVars, argsVars, httpVars, uploadVars, urlVars, headsVars, lockVars,
      codecVars>>
notCodecVars ==
    <<argsVars, httpVars, uploadVars, urlVars, headsVars, lockVars, openVars,
      cmdVars>>

-----------------------------------------------------------------------------
(* Bounds of the model.                                                    *)

\* The most trailing null bytes put on a body.
MaxNulls == 2
\* Hex digits of an object id in the model (40 in the program).
HexLen == 2

-----------------------------------------------------------------------------
(* Bytes.                                                                  *)

NUL == 0
LF == 10
SP == 32
PERCENT == 37
COMMA == 44
COLON == 58

None == <<>>
Some(x) == <<x>>
IsSome(o) == Len(o) = 1
IsNone(o) == Len(o) = 0
Unwrap(o) == o[1]

\* A panic of the process (an unwrap of None, an index out of bounds).
Panic == [tag |-> "panic"]
Ok(x) == [tag |-> "ok", val |-> x]
IsPanic(r) == r.tag = "panic"

Last(s) == s[Len(s)]
DropLast(s) == SubSeq(s, 1, Len(s) - 1)
Drop(s, n) == SubSeq(s, n + 1, Len(s))
Take(s, n) == SubSeq(s, 1, n)

Min(a, b) == IF a <= b THEN a ELSE b

\* let v = ...; Op(v): the value is computed once and named.
Bind(v, Op(_)) == Op(v)

RECURSIVE Concat(_)
Concat(ss) == IF ss = <<>> THEN <<>> ELSE Head(ss) \o Concat(Tail(ss))

RECURSIVE Join(_, _)
Join(ss, sep) ==
    IF ss = <<>> THEN <<>>
    ELSE IF Len(ss) = 1 THEN ss[1]
    ELSE ss[1] \o sep \o Join(Tail(ss), sep)

RECURSIVE Repeat(_, _)
Repeat(b, n) == IF n = 0 THEN <<>> ELSE <<b>> \o Repeat(b, n - 1)

\* The first index at which pat occurs in s, 0 when it does not.
FindSub(s, pat) ==
    LET hits == {i \in 1..(Len(s) - Len(pat) + 1) : SubSeq(s, i, i + Len(pat) - 1) = pat}
    IN  IF hits = {} THEN 0 ELSE CHOOSE i \in hits : \A j \in hits : i <= j

\* slice::splitn(n, sep): at most n pieces, the last one holding the rest.
RECURSIVE Splitn(_, _, _)
Splitn(s, n, pat) ==
    Bind(FindSub(s, pat), LAMBDA i :
        IF n <= 1 \/ i = 0 THEN <<s>>
        ELSE <<Take(s, i - 1)>> \o Splitn(Drop(s, i + Len(pat) - 1), n - 1, pat))

\* slice::split(sep): every piece.
Split(s, pat) == Splitn(s, Len(s) + 1, pat)

\* util::SliceExt::splitn_exact::<N>: Some(pieces) iff splitn(N) gives N pieces.
SplitnExact(s, n, pat) ==
    Bind(Splitn(s, n, pat), LAMBDA ps : IF Len(ps) = n THEN Some(ps) ELSE None)

\* Iterator<Option<T>>::collect::<Option<Vec<T>>>
CollectOptions(os) ==
    IF \E i \in 1..Len(os) : IsNone(os[i]) THEN None
    ELSE Some([i \in 1..Len(os) |-> Unwrap(os[i])])

\* Byte-wise lexicographic order (Ord for [u8]).
RECURSIVE LexLess(_, _)
LexLess(a, b) ==
    IF b = <<>> THEN FALSE
    ELSE IF a = <<>> THEN TRUE
    ELSE IF a[1] # b[1] THEN a[1] < b[1]
    ELSE LexLess(Tail(a), Tail(b))

\* A sequence of byte strings sorted ascending (slice::sort, stable).
RECURSIVE SortBytes(_)
SortBytes(ss) ==
    IF Len(ss) <= 1 THEN ss
    ELSE LET i == CHOOSE i \in 1..Len(ss) :
                    \A j \in 1..Len(ss) :
                        ~LexLess(ss[j], ss[i]) /\ (ss[j] = ss[i] => i <= j)
         IN  <<ss[i]>> \o SortBytes(Take(ss, i - 1) \o Drop(ss, i))

-----------------------------------------------------------------------------
(* Numbers and escapes in the textual patch form.                          *)

IsDigit(b) == b >= 48 /\ b <= 57
IsAlnum(b) == IsDigit(b) \/ (b >= 65 /\ b <= 90) \/ (b >= 97 /\ b <= 122)

\* Display for usize.
RECURSIVE Dec(_)
Dec(n) == IF n < 10 THEN <<48 + n>> ELSE Dec(n \div 10) \o <<48 + (n % 10)>>

\* usize::from_bytes: a non-empty run of decimal digits.
RECURSIVE DecVal(_)
DecVal(s) == IF s = <<>> THEN 0 ELSE 10 * DecVal(DropLast(s)) + (Last(s) - 48)

ParseUsize(s) ==
    IF s # <<>> /\ \A i \in 1..Len(s) : IsDigit(s[i]) THEN Some(DecVal(s)) ELSE None

HexUpper(n) == IF n < 10 THEN 48 + n ELSE 55 + n
IsHexDigit(b) == IsDigit(b) \/ (b >= 65 /\ b <= 70) \/ (b >= 97 /\ b <= 102)
HexVal(b) == IF IsDigit(b) THEN b - 48 ELSE IF b >= 97 THEN b - 87 ELSE b - 55

\* percent_encode(data, NON_ALPHANUMERIC)
RECURSIVE PercentEncode(_)
PercentEncode(s) ==
    IF s = <<>> THEN <<>>
    ELSE (IF IsAlnum(s[1]) THEN <<s[1]>>
          ELSE <<PERCENT, HexUpper(s[1] \div 16), HexUpper(s[1] % 16)>>)
         \o PercentEncode(Tail(s))

\* percent_decode(data)
RECURSIVE PercentDecode(_)
PercentDecode(s) ==
    IF s = <<>> THEN <<>>
    ELSE IF s[1] = PERCENT /\ Len(s) >= 3 /\ IsHexDigit(s[2]) /\ IsHexDigit(s[3])
         THEN <<16 * HexVal(s[2]) + HexVal(s[3])>> \o PercentDecode(Drop(s, 3))
         ELSE <<s[1]>> \o PercentDecode(Tail(s))

-----------------------------------------------------------------------------
(* Object ids (oid.rs) and the changeset hash.                             *)

HexLower(n) == IF n < 10 THEN 48 + n ELSE 87 + n

\* HgManifestId::from_bytes: the id of a string of hex digits (an id is the
\* sequence of its hex digit values), an error for anything else.
HgIdFromBytes(s) ==
    IF Len(s) = HexLen /\ \A i \in 1..Len(s) : IsHexDigit(s[i])
    THEN Some([i \in 1..HexLen |-> HexVal(s[i])])
    ELSE None

\* Display of an object id: lowercase hex.
HgIdDisplay(id) == [i \in 1..Len(id) |-> HexLower(id[i])]

\* HgManifestId::null()
NullManifest == [i \in 1..HexLen |-> 0]

\* HgChangesetId::null(). Changeset ids of parents are small integers ordered
\* as the ids' bytes are.
NullCs == 0

\* SHA-1 over p1 || p2 || bytes, as an ideal (collision-free) hash: the ids
\* have a fixed width, so the hashed input determines <<p1, p2, bytes>>.
Sha1(p1, p2, bytes) == <<p1, p2, bytes>>

RECURSIVE SortInts(_)
SortInts(s) ==
    IF Len(s) <= 1 THEN s
    ELSE LET i == CHOOSE i \in 1..Len(s) :
                    \A j \in 1..Len(s) : s[i] <= s[j] /\ (s[j] = s[i] => i <= j)
         IN  <<s[i]>> \o SortInts(Take(s, i - 1) \o Drop(s, i))

\* The id Mercurial gives a changeset: the parents, padded with the null id
\* to two entries, sorted ascending, then the text.
HgNodeId(parentIds, bytes) ==
    LET padded == Take(parentIds \o <<NullCs, NullCs>>, 2)
        sorted == SortInts(padded)
    IN  Sha1(sorted[1], sorted[2], bytes)

\* The id from_metadata computes for a candidate text: the parents it found
\* (parents.sort()), then chain(repeat(null)).take(2), then the text.
CandidateId(parentIds, bytes) ==
    LET sorted == SortInts(parentIds)
        padded == Take(sorted \o <<NullCs, NullCs>>, 2)
    IN  Sha1(padded[1], padded[2], bytes)

-----------------------------------------------------------------------------
(* Authorship (hg_data.rs).                                                *)

\* "+0000" and "-0100"
TzUtc == <<43, 48, 48, 48, 48>>
TzWest == <<45, 48, 49, 48, 48>>

\* The Mercurial utcoffset (seconds west of UTC) of a Git timezone.
UtcOffset(tz) == IF tz = TzUtc THEN <<48>> ELSE <<51, 54, 48, 48>>

\* The bytes of a Git author or committer line: who SP time SP tz.
GitIdentBytes(i) == i.who \o <<SP>> \o i.time \o <<SP>> \o i.tz

\* HgAuthorship::from(GitAuthorship)
HgAuthorshipOf(i) ==
    [author |-> i.who, timestamp |-> i.time, utcoffset |-> UtcOffset(i.tz)]

\* HgCommitter::from(GitAuthorship)
HgCommitterOf(i) == i.who \o <<SP>> \o i.time \o <<SP>> \o UtcOffset(i.tz)

-----------------------------------------------------------------------------
(* ChangesetExtra: a BTreeMap, held as <<key, value>> pairs in key order.  *)

\* ChangesetExtra::new
ExtraNew == <<>>

\* A ChangesetExtra that would keep every set() call, in the order made.
ExtraPush(data, k, v) == Append(data, <<k, v>>)

\* ChangesetExtra::set (BTreeMap::insert)
RECURSIVE ExtraSet(_, _, _)
ExtraSet(data, k, v) ==
    IF data = <<>> THEN <<<<k, v>>>>
    ELSE IF data[1][1] = k THEN <<<<k, v>>>> \o Tail(data)
    ELSE IF LexLess(k, data[1][1]) THEN <<<<k, v>>>> \o data
    ELSE <<data[1]>> \o ExtraSet(Tail(data), k, v)

RECURSIVE ExtraCollect(_, _)
ExtraCollect(data, entries) ==
    IF entries = <<>> THEN data
    ELSE ExtraCollect(ExtraSet(data, entries[1][1], entries[1][2]), Tail(entries))

\* ChangesetExtra::from: Panic when an entry has no ':' (the unwrap).
ExtraFrom(buf) ==
    IF buf = <<>> THEN Ok(ExtraNew)
    ELSE Bind(Split(buf, <<NUL>>), LAMBDA parts :
         Bind(CollectOptions([i \in 1..Len(parts) |->
                                SplitnExact(parts[i], 2, <<COLON>>)]), LAMBDA kvs :
             IF IsNone(kvs) THEN Panic
             ELSE Ok(ExtraCollect(ExtraNew, Unwrap(kvs)))))

\* ChangesetExtra::get
ExtraGet(data, k) ==
    IF \E i \in 1..Len(data) : data[i][1] = k
    THEN Some((data[CHOOSE i \in 1..Len(data) : data[i][1] = k])[2])
    ELSE None

\* ChangesetExtra::dump_into
ExtraDump(data) ==
    Join([i \in 1..Len(data) |-> data[i][1] \o <<COLON>> \o data[i][2]], <<NUL>>)

\* b"committer"
KeyCommitter == <<99, 111, 109, 109, 105, 116, 116, 101, 114>>

-----------------------------------------------------------------------------
(* GitChangesetPatch and xdiff.                                            *)

\* GitChangesetPatch::iter: None when a part is not start,end,data.
PatchPart(part) ==
    Bind(SplitnExact(part, 3, <<COMMA>>), LAMBDA f :
        IF IsNone(f) THEN None
        ELSE Bind(ParseUsize(Unwrap(f)[1]), LAMBDA start :
             Bind(ParseUsize(Unwrap(f)[2]), LAMBDA end :
                 IF IsNone(start) \/ IsNone(end) THEN None
                 ELSE Some([start |-> Unwrap(start), end |-> Unwrap(end),
                            data |-> PercentDecode(Unwrap(f)[3])]))))

PatchIter(p) ==
    Bind(Split(p, <<NUL>>), LAMBDA parts :
        CollectOptions([i \in 1..Len(parts) |-> PatchPart(parts[i])]))

\* GitChangesetPatch::from_patch_info
FromPatchInfo(infos) ==
    Join([i \in 1..Len(infos) |->
            Dec(infos[i].start) \o <<COMMA>> \o Dec(infos[i].end) \o <<COMMA>>
            \o PercentEncode(infos[i].data)],
         <<NUL>>)

\* xdiff::apply: the offsets are those of the input; a cursor walks it.
\* A slice out of the input's range panics.
RECURSIVE ApplyFrom(_, _, _)
ApplyFrom(infos, input, pos) ==
    IF infos = <<>> THEN Ok(Drop(input, pos))
    ELSE IF \/ infos[1].start < pos
            \/ infos[1].start > Len(input)
            \/ infos[1].end > Len(input)
         THEN Panic
         ELSE Bind(ApplyFrom(Tail(infos), input, infos[1].end), LAMBDA rest :
                  IF IsPanic(rest) THEN Panic
                  ELSE Ok(SubSeq(input, pos + 1, infos[1].start)
                          \o infos[1].data \o rest.val))

XdiffApply(infos, input) == ApplyFrom(infos, input, 0)

\* GitChangesetPatch::apply
PatchApply(p, input) ==
    Bind(PatchIter(p), LAMBDA infos :
        IF IsNone(infos) THEN Ok(None)
        ELSE Bind(XdiffApply(Unwrap(infos), input), LAMBDA out :
                 IF IsPanic(out) THEN Panic ELSE Ok(Some(out.val))))

CommonPrefix(a, b) ==
    LET ns == {n \in 0..Min(Len(a), Len(b)) : Take(a, n) = Take(b, n)}
    IN  CHOOSE n \in ns : \A m \in ns : m <= n

CommonSuffix(a, b) ==
    LET ns == {n \in 0..Min(Len(a), Len(b)) :
                 Drop(a, Len(a) - n) = Drop(b, Len(b) - n)}
    IN  CHOOSE n \in ns : \A m \in ns : m <= n

\* xdiff::textdiff(t, s): the patches a diff may produce, each turning s into
\* t when applied to s. One hunk, from the tightest (the common prefix and
\* suffix kept) to the whole text replaced.
TextDiffs(t, s) ==
    Bind(CommonPrefix(t, s), LAMBDA lcp :
        { <<[start |-> h[1], end |-> Len(s) - h[2],
             data |-> SubSeq(t, h[1] + 1, Len(t) - h[2])]>> :
            h \in { <<lcp, CommonSuffix(Drop(t, lcp), Drop(s, lcp))>>,
                    <<lcp, 0>>, <<0, 0>> } })

-----------------------------------------------------------------------------
(* RawHgChangeset and GitChangesetMetadata (store.rs).                     *)

\* RawHgChangeset::parse
ParseHeader(lines, desc) ==
    IF Len(lines) < 3 THEN None
    ELSE Bind(Splitn(lines[3], 3, <<SP>>), LAMBDA date :
         Bind(HgIdFromBytes(lines[1]), LAMBDA manifest :
             IF Len(date) < 2 \/ IsNone(manifest) THEN None
             ELSE Some([manifest |-> Unwrap(manifest),
                        author |-> lines[2],
                        timestamp |-> date[1],
                        utcoffset |-> date[2],
                        extra |-> IF Len(date) = 3 THEN Some(date[3]) ELSE None,
                        files |-> IF Len(lines) = 4 THEN Some(lines[4]) ELSE None,
                        body |-> desc])))

RawParse(bytes) ==
    Bind(SplitnExact(bytes, 2, <<LF, LF>>), LAMBDA hb :
        IF IsNone(hb) THEN None
        ELSE ParseHeader(Splitn(Unwrap(hb)[1], 4, <<LF>>), Unwrap(hb)[2]))

\* GitChangesetMetadata::extra
MetaExtra(m) == IF IsSome(m.extra) THEN Some(ExtraFrom(Unwrap(m.extra))) ELSE None

\* GitChangesetMetadata::files
MetaFiles(m) == IF IsNone(m.files) THEN <<>> ELSE Split(Unwrap(m.files), <<NUL>>)

\* from_metadata, lines 335-340: the extra of the metadata, with the
\* committer when it is not the author.
ExtraWithCommitter(c, extra) ==
    IF GitIdentBytes(c.author) # GitIdentBytes(c.committer)
    THEN Some(ExtraSet(IF IsSome(extra) THEN Unwrap(extra) ELSE ExtraNew,
                       KeyCommitter, HgCommitterOf(c.committer)))
    ELSE extra

\* Changeset bytes that would leave out an extra that dumps as nothing.
ChangesetBytesOmitEmpty(c, m, hg, extra, files) ==
    HgIdDisplay(m.manifest_id) \o <<LF>>
    \o (IF IsSome(m.author) THEN Unwrap(m.author) ELSE hg.author) \o <<LF>>
    \o hg.timestamp \o <<SP>> \o hg.utcoffset
    \o (IF IsSome(extra) /\ Unwrap(extra) # ExtraNew
        THEN <<SP>> \o ExtraDump(Unwrap(extra)) ELSE <<>>)
    \o Concat([i \in 1..Len(files) |-> <<LF>> \o files[i]])
    \o <<LF, LF>> \o c.body

\* from_metadata, lines 341-360: the changeset bytes.
ChangesetBytes(c, m, hg, extra, files) ==
    HgIdDisplay(m.manifest_id) \o <<LF>>
    \o (IF IsSome(m.author) THEN Unwrap(m.author) ELSE hg.author) \o <<LF>>
    \o hg.timestamp \o <<SP>> \o hg.utcoffset
    \o (IF IsSome(extra) THEN <<SP>> \o ExtraDump(Unwrap(extra)) ELSE <<>>)
    \o Concat([i \in 1..Len(files) |-> <<LF>> \o files[i]])
    \o <<LF, LF>> \o c.body

\* from_metadata up to the patch (lines 320-365): the changeset bytes made of
\* the commit and the metadata, patched when the metadata has a patch.
\* Ok(Some(bytes)), Ok(None) (a patch that does not parse) or Panic.
Synthesize(c, m) ==
    Bind(MetaExtra(m), LAMBDA extra0 :
        IF IsSome(extra0) /\ IsPanic(Unwrap(extra0)) THEN Panic
        ELSE Bind(ChangesetBytes(c, m, HgAuthorshipOf(c.author),
                                 ExtraWithCommitter(c,
                                     IF IsSome(extra0) THEN Some(Unwrap(extra0).val)
                                     ELSE None),
                                 SortBytes(MetaFiles(m))),
                  LAMBDA changeset :
                      IF IsSome(m.patch) THEN PatchApply(Unwrap(m.patch), changeset)
                      ELSE Ok(Some(changeset))))

\* GitChangesetId::to_hg of each parent, collected: None when one is unknown.
ParentsToHg(c) ==
    CollectOptions([i \in 1..Len(c.parents) |->
                      IF c.parents[i].mapped THEN Some(c.parents[i].hg) ELSE None])

\* One pass of the loop of lines 372-388 over the buffer:
\*   "exit"  the last byte is not a null
\*   "break" the candidate's id is the expected one
\*   "pop"   the candidate is not the changeset: its last null is removed
\*   "none"  a parent has no Mercurial id (the ? of line 378)
\*   "panic" the buffer is empty (changeset[len - 1])
LoopIter(c, expected, buf) ==
    IF buf = <<>> THEN [kind |-> "panic"]
    ELSE IF Last(buf) # NUL THEN [kind |-> "exit"]
    ELSE Bind(ParentsToHg(c), LAMBDA parents :
             IF IsNone(parents) THEN [kind |-> "none"]
             ELSE Bind(CandidateId(Unwrap(parents), buf), LAMBDA id :
                      IF id = expected THEN [kind |-> "break", id |-> id]
                      ELSE [kind |-> "pop", id |-> id]))

\* The whole loop (lines 367-389).
RECURSIVE NullLoop(_, _, _)
NullLoop(c, expected, buf) ==
    Bind(LoopIter(c, expected, buf), LAMBDA it :
        CASE it.kind = "panic" -> Panic
          [] it.kind = "none" -> Ok(None)
          [] it.kind = "pop" -> NullLoop(c, expected, DropLast(buf))
          [] OTHER -> Ok(Some(buf)))

\* RawHgChangeset::from_metadata
FromMetadata(c, m) ==
    Bind(Synthesize(c, m), LAMBDA syn :
        IF IsPanic(syn) THEN Panic
        ELSE IF IsNone(syn.val) THEN Ok(None)
        ELSE NullLoop(c, m.changeset_id, Unwrap(syn.val)))

\* The metadata generate() first makes of the parsed changeset, without patch
\* (lines 168-185).
TempMetadata(c, id, cs) ==
    [changeset_id |-> id,
     manifest_id |-> cs.manifest,
     author |-> IF GitIdentBytes(c.author) # cs.author THEN Some(cs.author) ELSE None,
     extra |-> cs.extra,
     files |-> cs.files,
     patch |-> None]

\* A generate() that would never make a patch.
WithPatchNever(bytes, temp, new) ==
    IF IsPanic(new) THEN {Panic}
    ELSE IF IsNone(new.val) THEN {Ok(None)}
    ELSE {Ok(Some(temp))}

\* generate(), lines 186-194: the metadata with the patch textdiff gives when
\* the changeset made of the patch-less metadata is not the raw changeset.
WithPatch(bytes, temp, new) ==
    IF IsPanic(new) THEN {Panic}
    ELSE IF IsNone(new.val) THEN {Ok(None)}
    ELSE IF bytes # Unwrap(new.val)
    THEN { Ok(Some([temp EXCEPT !.patch = Some(FromPatchInfo(d))])) :
             d \in TextDiffs(bytes, Unwrap(new.val)) }
    ELSE {Ok(Some(temp))}

\* GeneratedGitChangesetMetadata::generate: the results it may give, one per
\* patch textdiff may produce. Ok(Some(metadata)), Ok(None) or Panic.
Generate(c, id, bytes) ==
    Bind(RawParse(bytes), LAMBDA cs :
        IF IsNone(cs) THEN {Ok(None)}
        ELSE Bind(TempMetadata(c, id, Unwrap(cs)), LAMBDA temp :
                 WithPatch(bytes, temp, FromMetadata(c, temp))))

-----------------------------------------------------------------------------
(* The store scenario: a commit and a raw changeset of the repository, the *)
(* metadata generated for them or read from the store, and the changeset   *)
(* reconstructed of the commit and that metadata.                          *)

WhoA == <<65>>
WhoB == <<66>>

Idents == {[who |-> w, time |-> <<49>>, tz |-> TzUtc] : w \in {WhoA, WhoB}}

\* Bodies: "m" and up to MaxNulls null bytes.
Bodies == {<<109>> \o Repeat(NUL, k) : k \in 0..MaxNulls}

Parent(id) == [hg |-> id, mapped |-> TRUE]

ParentLists ==
    { <<>>, <<Parent(1)>>, <<Parent(1), Parent(2)>>, <<Parent(2), Parent(1)>>,
      <<[hg |-> 1, mapped |-> FALSE]>> }

Commits ==
    { [author |-> [who |-> WhoA, time |-> <<49>>, tz |-> TzUtc],
       committer |-> cm, body |-> b, parents |-> ps] :
        cm \in Idents, b \in Bodies, ps \in ParentLists }

\* The extra field of the date line: absent, empty, "b:x", "k:1 NUL a:2"
\* (keys out of order) and "x" (no colon).
RawExtras ==
    { None, Some(<<>>), Some(<<98, 58, 120>>),
      Some(<<107, 58, 49, 0, 97, 58, 50>>), Some(<<120>>) }

\* The files block: absent, "f", and "g LF f" (out of order).
RawFiles == { None, Some(<<102>>), Some(<<103, 10, 102>>) }

\* Raw changesets as Mercurial lays them out, and two that do not parse.
RawChangesets ==
    { Repeat(49, HexLen) \o <<LF>> \o w \o <<LF, 49, SP, 48>>
        \o (IF IsSome(e) THEN <<SP>> \o Unwrap(e) ELSE <<>>)
        \o (IF IsSome(f) THEN <<LF>> \o Unwrap(f) ELSE <<>>)
        \o <<LF, LF>> \o b :
        w \in {WhoA, WhoB}, e \in RawExtras, f \in RawFiles, b \in Bodies }
    \cup { <<109>>, <<103>> \o Repeat(49, HexLen - 1) \o <<LF, 65, LF, 49, SP, 48, LF, LF, 109>> }

ParentIds(c) == [i \in 1..Len(c.parents) |-> c.parents[i].hg]

\* The parts of the state a scenario does not use stay as they are here.
StoreIdle ==
    /\ commit = [author |-> [who |-> <<>>, time |-> <<>>, tz |-> <<>>],
                 committer |-> [who |-> <<>>, time |-> <<>>, tz |-> <<>>],
                 body |-> <<>>, parents |-> <<>>]
    /\ raw = <<>> /\ node = <<>> /\ meta = <<>> /\ via = "none"
    /\ text = <<>> /\ pretext = <<>> /\ tested = <<>> /\ popped = {}
    /\ result = [tag |-> "ok", val |-> <<>>] /\ spc = "idle"

ArgsIdle ==
    /\ httpheader = 0 /\ hgargs = <<>> /\ overflowChecks = FALSE
    /\ remaining = <<>> /\ num = 1 /\ headers = <<>> /\ request = <<>>
    /\ apc = "idle"

HttpIdle ==
    /\ follow_config = "idle" /\ initial_request = TRUE /\ created = 0
    /\ req = <<>> /\ attempt = 0 /\ fills = 0 /\ failures = <<>>
    /\ hpc = "off" /\ wpc = "none" /\ slotFollow = FALSE /\ first = FALSE
    /\ chan = <<>> /\ senderAlive = FALSE /\ receiverAlive = FALSE
    /\ net = <<>> /\ info = <<>> /\ cursor = <<>> /\ sent = <<>> /\ got = <<>>
    /\ eof = FALSE

UploadIdle == body = <<>> /\ bodyPos = 0 /\ postSize = 0 /\ wire = <<>>

\* A URL is its part before the query and its query, a list of pairs.
Url(path, query) == [path |-> path, query |-> query]

\* The URL get_http_connection is given.
RepoUrl == Url("repo", None)

UrlIdle == url = RepoUrl /\ command_url = RepoUrl /\ warnings = <<>>

HeadsIdle ==
    /\ heads = <<>> /\ generation = 0 /\ metadata = <<>> /\ output = <<>>
    /\ lastOp = [op |-> "none", cs |-> <<>>] /\ assigned = -1 /\ cpc = "off"

LockIdle ==
    /\ owner = 0 /\ tpc = <<>> /\ job = <<>> /\ local = <<>> /\ stable = <<>>
    /\ calls = 0

OpenIdle ==
    /\ opc = "off" /\ http_resp = <<>> /\ header = <<>> /\ kind = "none" /\ caps = <<>>
    /\ chain = <<>> /\ fed = <<>> /\ served = <<>>

CmdIdle ==
    /\ kpc = "off" /\ command = "" /\ content_type = <<>> /\ response = <<>> /\ diag = <<>>
    /\ lineStart = TRUE /\ comp_len = 0 /\ comp = <<>> /\ payload = <<>>

CodecIdle ==
    /\ blob = <<>> /\ sets = <<>> /\ xdata = <<>> /\ dumped = <<>>
    /\ redumped = <<>> /\ xpc = "off"

NotStoreIdle ==
    /\ ArgsIdle /\ HttpIdle /\ UploadIdle /\ UrlIdle /\ HeadsIdle /\ LockIdle
    /\ OpenIdle /\ CmdIdle /\ CodecIdle
NotArgsIdle ==
    /\ StoreIdle /\ HttpIdle /\ UploadIdle /\ UrlIdle /\ HeadsIdle /\ LockIdle
    /\ OpenIdle /\ CmdIdle /\ CodecIdle
NotHttpIdle ==
    /\ StoreIdle /\ ArgsIdle /\ HeadsIdle /\ LockIdle /\ OpenIdle /\ CmdIdle
    /\ CodecIdle
NotHeadsIdle ==
    /\ StoreIdle /\ ArgsIdle /\ HttpIdle /\ UploadIdle /\ UrlIdle /\ OpenIdle
    /\ CmdIdle /\ CodecIdle
NotOpenIdle ==
    /\ StoreIdle /\ ArgsIdle /\ HttpIdle /\ UploadIdle /\ HeadsIdle /\ LockIdle
    /\ CmdIdle /\ CodecIdle
NotCmdIdle ==
    /\ StoreIdle /\ ArgsIdle /\ HttpIdle /\ UploadIdle /\ UrlIdle /\ HeadsIdle
    /\ LockIdle /\ CodecIdle
NotCodecIdle ==
    /\ ArgsIdle /\ HttpIdle /\ UploadIdle /\ UrlIdle /\ HeadsIdle /\ LockIdle
    /\ OpenIdle /\ CmdIdle

StoreInit ==
    /\ commit \in Commits
    /\ raw \in RawChangesets
    /\ node = HgNodeId(ParentIds(commit), raw)
    /\ meta = None
    /\ via = "none"
    /\ text = <<>>
    /\ pretext = <<>>
    /\ tested = <<>>
    /\ popped = {}
    /\ result = Ok(None)
    /\ spc = "start"
    /\ NotStoreIdle

\* The importer calls generate() for the commit and the changeset.
DoGenerate ==
    /\ spc = "start"
    /\ \E g \in Generate(commit, node, raw) :
         /\ via' = "generate"
         /\ IF IsPanic(g) THEN /\ meta' = None
                               /\ result' = Panic
                               /\ spc' = "done"
            ELSE IF IsNone(g.val) THEN /\ meta' = None
                                       /\ result' = Ok(None)
                                       /\ spc' = "done"
            ELSE /\ meta' = g.val
                 /\ result' = Ok(None)
                 /\ spc' = "meta"
    /\ UNCHANGED <<commit, raw, node, text, pretext, tested, popped>>
    /\ UNCHANGED notStoreVars

\* RawHgChangeset::read: the metadata is the one stored for the commit, as
\* the importer wrote it of the parsed changeset, without a patch.
DoReadMetadata ==
    /\ spc = "start"
    /\ IsSome(RawParse(raw))
    /\ via' = "read"
    /\ \E cs \in {Unwrap(RawParse(raw))} :
         meta' = Some([TempMetadata(commit, node, cs) EXCEPT !.author = Some(cs.author)])
    /\ spc' = "meta"
    /\ UNCHANGED <<commit, raw, node, text, pretext, tested, popped, result>>
    /\ UNCHANGED notStoreVars

\* from_metadata, lines 320-365.
DoSynthesize ==
    /\ spc = "meta"
    /\ \E syn \in {Synthesize(commit, Unwrap(meta))} :
           IF IsPanic(syn)
           THEN /\ result' = Panic /\ spc' = "done" /\ UNCHANGED <<text, pretext>>
           ELSE IF IsNone(syn.val)
           THEN /\ result' = Ok(None) /\ spc' = "done" /\ UNCHANGED <<text, pretext>>
           ELSE /\ text' = Unwrap(syn.val)
                /\ pretext' = Unwrap(syn.val)
                /\ spc' = "loop"
                /\ UNCHANGED result
    /\ UNCHANGED <<commit, raw, node, meta, via, tested, popped>>
    /\ UNCHANGED notStoreVars

\* from_metadata, one pass of the loop of lines 372-388, and line 389.
DoLoopIter ==
    /\ spc = "loop"
    /\ \E it \in {LoopIter(commit, Unwrap(meta).changeset_id, text)} :
           /\ tested' = IF it.kind \in {"break", "pop"}
                        THEN Append(tested, <<text, it.id>>) ELSE tested
           /\ popped' = IF it.kind = "pop" THEN popped \cup {text} ELSE popped
           /\ text' = IF it.kind = "pop" THEN DropLast(text) ELSE text
           /\ result' = CASE it.kind = "panic" -> Panic
                          [] it.kind = "none" -> Ok(None)
                          [] it.kind = "pop" -> result
                          [] OTHER -> Ok(Some(text))
           /\ spc' = IF it.kind = "pop" THEN "loop"
                     ELSE IF it.kind \in {"exit", "break"} THEN "returned" ELSE "done"
    /\ UNCHANGED <<commit, raw, node, meta, via, pretext>>
    /\ UNCHANGED notStoreVars

StoreNext == DoGenerate \/ DoReadMetadata \/ DoSynthesize \/ DoLoopIter

SpecStore == StoreInit /\ [][StoreNext]_vars

-----------------------------------------------------------------------------
(* Properties of the reconstruction.                                       *)

\* from_metadata has returned (a changeset, nothing, or the process died).
Reconstructed == spc \in {"returned", "done"} /\ pretext # <<>>

AllParentsMapped == \A i \in 1..Len(commit.parents) : commit.parents[i].mapped

\* The text has the true changeset as a prefix, followed by null bytes only.
RawThenNulls(t) ==
    /\ Len(t) >= Len(raw)
    /\ Take(t, Len(raw)) = raw
    /\ \A i \in (Len(raw) + 1)..Len(t) : t[i] = NUL

\* C1: when generate(c, id, r) gives a metadata m for the changeset r whose
\* id is hash(parents, r), from_metadata(c, m) returns exactly r.
C1_GenerateRoundTrip ==
    (via = "generate" /\ IsSome(meta) /\ AllParentsMapped /\ Reconstructed)
        => result = Ok(Some(raw))

\* C2: when the text ends in null bytes and from_metadata returns a text, the
\* text returned hashes to the expected id (whether the parents are padded
\* before or after they are sorted): with no such candidate nothing is
\* returned.
C2_NoMatchFails ==
    (spc = "returned" /\ Last(pretext) = NUL)
        => \/ CandidateId(ParentIds(commit), text) = Unwrap(meta).changeset_id
           \/ HgNodeId(ParentIds(commit), text) = Unwrap(meta).changeset_id

\* C3: every candidate id the loop tests is the hash of the parents, padded
\* with the null id to two entries and then sorted ascending, and the bytes.
C3_CandidateIsNodeId ==
    \A i \in 1..Len(tested) :
        tested[i][2] = HgNodeId(ParentIds(commit), tested[i][1])

\* C4: a changeset whose true text ends in null bytes is reconstructed from
\* its metadata as exactly that text, and the loop never removes a null from
\* a candidate that hashes to the expected id.
C4_TrailingNullsKept ==
    (AllParentsMapped /\ Last(raw) = NUL /\ Reconstructed /\ RawThenNulls(pretext))
        => /\ result = Ok(Some(raw))
           /\ \A t \in popped :
                  HgNodeId(ParentIds(commit), t) # Unwrap(meta).changeset_id

-----------------------------------------------------------------------------
(* HgHttpConnection::start_command_request (hg_connect_http.rs).           *)

\* The most X-HgArg headers the model lets the loop push.
MaxHeaders == 14

AMP == 38
PLUS == 43
EQUALS == 61

\* form_urlencoded::byte_serialize: * - . _ and alphanumerics stay, a space
\* becomes +, anything else %XX.
RECURSIVE ByteSerialize(_)
ByteSerialize(v) ==
    IF v = <<>> THEN <<>>
    ELSE (IF IsAlnum(v[1]) \/ v[1] \in {42, 45, 46, 95} THEN <<v[1]>>
          ELSE IF v[1] = SP THEN <<PLUS>>
          ELSE <<PERCENT, HexUpper(v[1] \div 16), HexUpper(v[1] % 16)>>)
         \o ByteSerialize(Tail(v))

\* form_urlencoded::Serializer: append_pair for every pair, then finish.
FormUrlencode(pairs) ==
    Join([i \in 1..Len(pairs) |->
            ByteSerialize(pairs[i][1]) \o <<EQUALS>> \o ByteSerialize(pairs[i][2])],
         <<AMP>>)

\* "cmd", "heads", "common", "ffff", "0000", "key", "a b"
StrCmd == <<99, 109, 100>>
StrHeads == <<104, 101, 97, 100, 115>>
StrCommon == <<99, 111, 109, 109, 111, 110>>
StrFfff == <<102, 102, 102, 102>>
StrZeros == <<48, 48, 48, 48>>
StrKey == <<107, 101, 121>>
StrAB == <<97, 32, 98>>

\* "Accept" and "application/mercurial-0.1"
StrAccept == <<65, 99, 99, 101, 112, 116>>
StrMercurial01 == <<97, 112, 112, 108, 105, 99, 97, 116, 105, 111, 110, 47, 109, 101, 114, 99, 117, 114, 105, 97, 108, 45, 48, 46, 49>>

\* format!("X-HgArg-{}", num)
HeaderName(n) == <<88, 45, 72, 103, 65, 114, 103, 45>> \o Dec(n)

\* ": "
HeaderSep == <<COLON, SP>>

\* The header line as it goes on the wire: format!("{}: {}", name, value).
HeaderLine(h) == h[1] \o HeaderSep \o h[2]

\* httpheader - header_name.len() - ": ".len() underflows.
ChunkUnderflows(budget, nameLen) == budget < nameLen + Len(HeaderSep)

\* The chunk length if the separator were left out of the budget.
ChunkLenWithoutSep(argsLen, budget, nameLen) ==
    IF budget < nameLen THEN argsLen ELSE Min(argsLen, budget - nameLen)

\* cmp::min(args.len(), httpheader - header_name.len() - ": ".len()) where
\* the subtraction does not panic: an underflow wraps to a value just under
\* 2^64, above the length of any string.
ChunkLen(argsLen, budget, nameLen) ==
    IF ChunkUnderflows(budget, nameLen) THEN argsLen
    ELSE Min(argsLen, budget - nameLen - Len(HeaderSep))

\* The arguments of scenario S1, and others: none, one with a space in it.
S1Args == << <<StrHeads, StrFfff>>, <<StrCommon, StrZeros>> >>
ArgLists == { <<>>, S1Args, << <<StrKey, StrAB>> >>, << <<StrKey, StrFfff>> >> }

\* The httpheader capability: absent (0) or a number.
Budgets == {0, 5, 11, 12, 13, 32}

ArgsInit ==
    /\ httpheader \in Budgets
    /\ hgargs \in ArgLists
    /\ overflowChecks \in BOOLEAN
    /\ remaining = <<>>
    /\ num = 1
    /\ headers = <<>>
    /\ request = None
    /\ apc = "start"
    /\ NotArgsIdle

\* The URL query of the command: cmd, and the arguments when they do not
\* travel in headers.
CommandQuery(inQuery) == FormUrlencode(<< <<StrCmd, StrHeads>> >> \o inQuery)

\* The request made of the URL and the headers (lines 394-399).
BuildRequest(query, hs) ==
    [query |-> query, headers |-> << <<StrAccept, StrMercurial01>> >> \o hs]

\* start_command_request up to the loop (lines 352-375), and all of it when
\* the arguments go in the query (lines 388-400).
StartCommandRequest ==
    /\ apc = "start"
    /\ IF httpheader > 0 /\ hgargs # <<>>
       THEN /\ remaining' = FormUrlencode(hgargs)
            /\ apc' = "loop"
            /\ UNCHANGED request
       ELSE /\ request' = Some(BuildRequest(CommandQuery(hgargs), <<>>))
            /\ apc' = "done"
            /\ UNCHANGED remaining
    /\ UNCHANGED <<httpheader, hgargs, overflowChecks, num, headers>>
    /\ UNCHANGED notArgsVars

\* One pass of the loop (lines 376-386).
ChunkStep ==
    /\ apc = "loop"
    /\ remaining # <<>>
    /\ Len(headers) < MaxHeaders
    /\ \E name \in {HeaderName(num)} :
         IF overflowChecks /\ ChunkUnderflows(httpheader, Len(name))
         THEN /\ apc' = "panic"
              /\ num' = num + 1
              /\ UNCHANGED <<remaining, headers>>
         ELSE \E n \in {ChunkLen(Len(remaining), httpheader, Len(name))} :
                 /\ headers' = Append(headers, <<name, Take(remaining, n)>>)
                 /\ remaining' = Drop(remaining, n)
                 /\ num' = num + 1
                 /\ UNCHANGED apc
    /\ UNCHANGED <<httpheader, hgargs, overflowChecks, request>>
    /\ UNCHANGED notArgsVars

\* The loop ends and the request is made (lines 376, 391-400).
FinishCommandRequest ==
    /\ apc = "loop"
    /\ remaining = <<>>
    /\ request' = Some(BuildRequest(CommandQuery(<<>>), headers))
    /\ apc' = "done"
    /\ UNCHANGED <<httpheader, hgargs, overflowChecks, remaining, num, headers>>
    /\ UNCHANGED notArgsVars

ArgsNext == StartCommandRequest \/ ChunkStep \/ FinishCommandRequest

SpecArgs == ArgsInit /\ [][ArgsNext]_vars

-----------------------------------------------------------------------------
(* Properties of the argument headers.                                     *)

\* The values of the X-HgArg headers pushed so far, in order.
HeaderValues == [i \in 1..Len(headers) |-> headers[i][2]]

\* C5: for every budget above 0 and every non-empty argument string, the
\* headers are X-HgArg-1, X-HgArg-2, ..., no header line is longer than the
\* budget, nothing panics, and the values joined in order are the argument
\* string (so far while the loop runs, all of it once the request is made).
C5_ChunksFitBudget ==
    (httpheader > 0 /\ hgargs # <<>> /\ apc \in {"loop", "done", "panic"})
        => /\ apc # "panic"
           /\ \A i \in 1..Len(headers) :
                  /\ headers[i][1] = HeaderName(i)
                  /\ Len(HeaderLine(headers[i])) <= httpheader
           /\ Concat(HeaderValues) \o remaining = FormUrlencode(hgargs)
           /\ (apc = "done" => Concat(HeaderValues) = FormUrlencode(hgargs))

\* Scenario S1 has run: httpheader=32, heads=ffff and common=0000.
S1Done == httpheader = 32 /\ hgargs = S1Args /\ apc = "done" /\ IsSome(request)

\* "cmd=heads"
StrCmdHeads == <<99, 109, 100, 61, 104, 101, 97, 100, 115>>

\* C6 (as stated): in scenario S1 the argument headers are X-HgArg-1 with
\* "heads=ffff&common=" and X-HgArg-2 with "0000", and the query is only cmd.
C6_S1AsStated ==
    S1Done =>
        /\ Tail(Unwrap(request).headers) =
               << <<HeaderName(1), <<104, 101, 97, 100, 115, 61, 102, 102, 102, 102, 38, 99, 111, 109, 109, 111, 110, 61>>>>,
                  <<HeaderName(2), <<48, 48, 48, 48>>>> >>
        /\ Unwrap(request).query = StrCmdHeads

\* C6 (amended): in scenario S1 the argument headers are X-HgArg-1 with the
\* first 21 bytes, "heads=ffff&common=000", and X-HgArg-2 with the last, "0";
\* the query is only cmd and the first header of the request is Accept.
C6_S1Headers ==
    S1Done =>
        /\ Unwrap(request).headers =
               << <<StrAccept, StrMercurial01>>,
                  <<HeaderName(1), <<104, 101, 97, 100, 115, 61, 102, 102, 102, 102, 38, 99, 111, 109, 109, 111, 110, 61, 48, 48, 48>>>>,
                  <<HeaderName(2), <<48>>>> >>
        /\ Unwrap(request).query = StrCmdHeads

\* Scenario S1 has made its request, with two argument headers.
C6_S1Reached == S1Done /\ Len(Unwrap(request).headers) = 3

-----------------------------------------------------------------------------
(* HttpClient, HttpRequest, HttpResponse (hg_connect_http.rs).             *)

\* The most requests one client creates in the model.
MaxRequests == 2
\* The most chunks of a response body.
MaxChunks == 2

\* Results of run_one_slot (git's http.h).
HTTP_OK == 0
HTTP_REAUTH == 4
\* HTTP_ERROR and HTTP_NOAUTH
OtherFailures == {2, 5}

FollowModes == {"HTTP_FOLLOW_NONE", "HTTP_FOLLOW_INITIAL", "HTTP_FOLLOW_ALWAYS"}

\* A client that follows under HTTP_FOLLOW_INITIAL whatever the request.
RequestFollowsAnyRequest(mode, initial) ==
    mode = "HTTP_FOLLOW_INITIAL" \/ mode = "HTTP_FOLLOW_ALWAYS"

\* HttpClient::request: the condition under which follow_redirects(true).
RequestFollows(mode, initial) ==
    (mode = "HTTP_FOLLOW_INITIAL" /\ initial) \/ mode = "HTTP_FOLLOW_ALWAYS"

\* HttpRequest::new, follow_redirects and post_data: the request as it is
\* executed; index is the rank of the request among those of the client.
HttpRequestNew(follow, hasBody, index) ==
    [follow_redirects |-> follow, has_body |-> hasBody, index |-> index]

\* get_active_slot (git's http.c) gives the handle back with
\* CURLOPT_FOLLOWLOCATION on only under HTTP_FOLLOW_ALWAYS.
GetActiveSlotFollow(mode) == mode = "HTTP_FOLLOW_ALWAYS"

\* A worker that leaves CURLOPT_FOLLOWLOCATION alone for a request with a body.
SlotFollowIgnoringBody(slotDefault, r) ==
    IF r.follow_redirects THEN TRUE ELSE slotDefault

\* CURLOPT_FOLLOWLOCATION after the worker has set the handle up.
SlotFollowFor(slotDefault, r) ==
    IF r.has_body THEN FALSE
    ELSE IF r.follow_redirects THEN TRUE
    ELSE slotDefault

\* An execute that retries whatever the failure.
RetryAnyFailure(res) == res # HTTP_OK

\* execute: the first failure is retried when it is HTTP_REAUTH.
ShouldRetry(res) == res = HTTP_REAUTH

\* A channel that loses what is sent.
ChannelLose(ch, msg) == ch

\* Sender::send: the channel is a queue.
ChannelSend(ch, msg) == Append(ch, msg)

InfoMsg(i) == [kind |-> "info", val |-> i]
DataMsg(d) == [kind |-> "data", val |-> d]

\* A cursor that forgets what the buffer could not take.
CursorReadForgetful(cur, n) ==
    [out |-> Take(cur, Min(n, Len(cur))), rest |-> <<>>]

\* A write callback that reports the chunk taken whatever send() gave.
CallbackTakesAll(sendOk, nmemb) == nmemb

\* http_request_execute: what the write callback returns for a chunk of nmemb
\* bytes: nmemb, or 0 when send() failed; libcurl stops the transfer when the
\* value is not nmemb.
CallbackReturn(sendOk, nmemb) == IF sendOk THEN nmemb ELSE 0

\* A join that does not wait for the thread.
ThreadJoinedUnwaited(w) == TRUE

\* JoinHandle::join returns: the thread has ended.
ThreadJoined(w) == w = "exited"

\* The bodies of the requests that have one: none for pushkey, a file for a
\* push.
RequestBodies == { <<>>, <<7, 8>> }

\* SeekExt::stream_len_: the length of the stream, found by seeking; the
\* position is left where it was.
StreamLen(b, pos) == [len |-> Len(b), pos |-> pos]

\* A worker that leaves the body's reader where the last attempt left it.
BodyNotRewound(pos) == pos

\* body.seek(SeekFrom::Start(0)): the position after the seek.
BodySeekStart(pos) == 0

\* Cursor::read into a buffer of n bytes: the bytes given, and those left.
CursorRead(cur, n) ==
    [out |-> Take(cur, Min(n, Len(cur))), rest |-> Drop(cur, Min(n, Len(cur)))]

\* The chunks libcurl hands the write callback are not empty.
ChunkSet == { <<1>>, <<2, 3>> }

RECURSIVE SeqsUpTo(_, _)
SeqsUpTo(S, n) ==
    IF n = 0 THEN { <<>> }
    ELSE SeqsUpTo(S, n - 1)
         \cup { Append(q, x) : q \in {r \in SeqsUpTo(S, n - 1) : Len(r) = n - 1}, x \in S }

NetBodies == SeqsUpTo(ChunkSet, MaxChunks)

\* The buffers the callers read into (read_at_most, copy).
ReadSizes == {1, 2}

\* What a transfer may do, given CURLOPT_FOLLOWLOCATION: the final status,
\* whether a redirect was followed, run_one_slot's result and the chunks of
\* the body. A status of 300 or more is never HTTP_OK (handle_curl_result);
\* HTTP_REAUTH is a 401; status 0 is a transfer without a response.
\* aborted: the write callback has returned 0 and libcurl has stopped the
\* transfer.
\* Where a server may send a request it redirects: to another place, with the
\* query of the request or without a query.
RedirectTargets ==
    { Url("moved", None),
      Url("moved", Some(<< <<"cmd", "capabilities">> >>)),
      Url("repo", Some(<< <<"cmd", "heads">> >>)) }

\* CURLINFO_REDIRECT_COUNT and CURLINFO_EFFECTIVE_URL at the end of a
\* transfer: redirects happen only when they are followed.
Redirections(follow) ==
    { [count |-> 0, url |-> None] }
    \cup (IF follow THEN { [count |-> 1, url |-> Some(u)] : u \in RedirectTargets }
          ELSE {})

Transfers(follow) ==
    { [status |-> 200, redirects |-> r.count, effective |-> r.url, result |-> res,
       chunks |-> b, aborted |-> FALSE] :
        r \in Redirections(follow), res \in {HTTP_OK, 2}, b \in NetBodies }
    \cup { [status |-> 0, redirects |-> 0, effective |-> None, result |-> 2,
            chunks |-> <<>>, aborted |-> FALSE] }
    \cup { [status |-> 401, redirects |-> 0, effective |-> None, result |-> res,
            chunks |-> b, aborted |-> FALSE] :
             res \in {HTTP_REAUTH, 5}, b \in { <<>>, << <<1>> >> } }
    \cup (IF follow THEN {}
          ELSE { [status |-> 302, redirects |-> 0, effective |-> None, result |-> 2,
                  chunks |-> <<>>, aborted |-> FALSE] })

\* http_send_info: what is read off the handle; the effective URL is read
\* only when the count of redirects is positive.
ResponseInfoOf(n) ==
    [http_status |-> n.status,
     redirected_to |-> IF n.redirects > 0 THEN n.effective ELSE None]

\* The name of the command a request is for: the first is the capabilities
\* request, pushkey and unbundle have a body.
CommandOf(first_request, b) ==
    IF first_request THEN "capabilities"
    ELSE IF b = None THEN "heads"
    ELSE IF b = Some(<<>>) THEN "pushkey"
    ELSE "unbundle"

\* Url::query_pairs_mut().append_pair(name, value).
AppendPair(u, name, value) ==
    [u EXCEPT !.query = Some((IF IsSome(@) THEN Unwrap(@) ELSE <<>>)
                                 \o << <<name, value>> >>)]

\* start_command_request, lines 365-367: the command URL.
CommandUrl(base, cmd) == AppendPair(base, "cmd", cmd)

\* A base URL that keeps the query of the URL redirected to.
KeepQuery(u) == u

\* Url::set_query(None).
SetQueryNone(u) == [u EXCEPT !.query = None]

\* handle_redirect: the base URL and the warnings after a response.
HandleRedirect(base, warned, resp) ==
    IF IsSome(resp.redirected_to)
    THEN [url |-> SetQueryNone(Unwrap(resp.redirected_to)),
          warnings |-> Append(warned, SetQueryNone(Unwrap(resp.redirected_to)))]
    ELSE [url |-> base, warnings |-> warned]

HttpInit ==
    /\ follow_config \in FollowModes
    /\ initial_request = TRUE
    /\ created = 0
    /\ req = None
    /\ attempt = 0 /\ fills = 0 /\ failures = <<>>
    /\ hpc = "idle" /\ wpc = "none"
    /\ slotFollow = FALSE /\ first = FALSE
    /\ chan = <<>> /\ senderAlive = FALSE /\ receiverAlive = FALSE
    /\ net = <<>> /\ info = None /\ cursor = <<>>
    /\ sent = <<>> /\ got = <<>> /\ eof = FALSE
    /\ UploadIdle
    /\ UrlIdle
    /\ NotHttpIdle

\* execute_once, lines 143-144 and 209: the channel is made, the worker is
\* spawned and the caller waits for the first message.
Spawn ==
    /\ chan' = <<>>
    /\ senderAlive' = TRUE
    /\ receiverAlive' = TRUE
    /\ first' = TRUE
    /\ wpc' = "setup"
    /\ sent' = <<>>
    /\ attempt' = attempt + 1
    /\ hpc' = "recv"

\* HttpClient::request (and post_data for a command with a body): the first
\* request of a connection is the capabilities request, without body.
ClientRequest ==
    /\ hpc = "idle"
    /\ created < MaxRequests
    /\ \E b \in (IF created = 0 THEN {None} ELSE {None} \cup {Some(x) : x \in RequestBodies}) :
         /\ req' = Some(HttpRequestNew(RequestFollows(follow_config, initial_request),
                                       IsSome(b), created + 1))
         /\ body' = IF IsSome(b) THEN Unwrap(b) ELSE <<>>
         /\ command_url' = CommandUrl(url, CommandOf(created = 0, b))
    /\ UNCHANGED <<url, warnings>>
    /\ bodyPos' = 0
    /\ wire' = <<>>
    /\ UNCHANGED postSize
    /\ initial_request' = FALSE
    /\ created' = created + 1
    /\ attempt' = 0 /\ fills' = 0 /\ failures' = <<>>
    /\ hpc' = "ready"
    /\ info' = None /\ cursor' = <<>> /\ got' = <<>> /\ eof' = FALSE /\ sent' = <<>>
    /\ UNCHANGED <<follow_config, wpc, slotFollow, first, chan, senderAlive,
                   receiverAlive, net>>
    /\ UNCHANGED notHttpVars

\* execute: the first execute_once.
Execute ==
    /\ hpc = "ready"
    /\ Spawn
    /\ UNCHANGED <<follow_config, initial_request, created, req, fills, failures,
                   slotFollow, net, info, cursor, got, eof>>
    /\ UNCHANGED notHttpVars
    /\ UNCHANGED urlVars
    /\ UNCHANGED uploadVars

\* The worker, lines 145-196: the handle is set up and the transfer starts.
WorkerSetup ==
    /\ wpc = "setup"
    /\ slotFollow' = SlotFollowFor(GetActiveSlotFollow(follow_config), Unwrap(req))
    /\ net' \in Transfers(slotFollow')
    /\ wpc' = "transfer"
    /\ wire' = <<>>
    /\ IF Unwrap(req).has_body
       THEN /\ postSize' = StreamLen(body, bodyPos).len
            /\ bodyPos' = BodySeekStart(StreamLen(body, bodyPos).pos)
       ELSE UNCHANGED <<postSize, bodyPos>>
    /\ UNCHANGED body
    /\ UNCHANGED <<follow_config, initial_request, created, req, attempt, fills,
                   failures, hpc, first, chan, senderAlive, receiverAlive, info,
                   cursor, sent, got, eof>>
    /\ UNCHANGED notHttpVars
    /\ UNCHANGED urlVars

\* http_request_execute: the transfer hands a chunk to the write callback,
\* which sends the info first if it has not been sent, then the chunk; when
\* the receiver is gone the callback returns 0 and the transfer is aborted.
WorkerWrite ==
    /\ wpc = "transfer"
    /\ net.chunks # <<>>
    /\ first' = FALSE
    /\ sent' = Append(sent, Head(net.chunks))
    /\ \E withInfo \in {IF first THEN ChannelSend(chan, InfoMsg(ResponseInfoOf(net)))
                        ELSE chan} :
         /\ chan' = IF receiverAlive
                    THEN ChannelSend(withInfo, DataMsg(Head(net.chunks)))
                    ELSE <<>>
         /\ net' = IF CallbackReturn(receiverAlive, Len(Head(net.chunks)))
                        = Len(Head(net.chunks))
                    THEN [net EXCEPT !.chunks = Tail(@)]
                    ELSE [net EXCEPT !.chunks = <<>>, !.result = 2, !.aborted = TRUE]
    /\ UNCHANGED <<follow_config, initial_request, created, req, attempt, fills,
                   failures, hpc, wpc, slotFollow, senderAlive, receiverAlive, info,
                   cursor, got, eof>>
    /\ UNCHANGED notHttpVars
    /\ UNCHANGED urlVars
    /\ UNCHANGED uploadVars

\* read_from_read: during the transfer libcurl reads the body, some bytes at
\* a time and no more than the size it was given, from where the reader is.
WorkerUpload ==
    /\ wpc = "transfer"
    /\ Unwrap(req).has_body
    /\ ~net.aborted
    /\ Len(wire) < postSize
    /\ bodyPos < Len(body)
    /\ \E n \in 1..Min(postSize - Len(wire), Len(body) - bodyPos) :
         /\ wire' = wire \o SubSeq(body, bodyPos + 1, bodyPos + n)
         /\ bodyPos' = bodyPos + n
    /\ UNCHANGED <<body, postSize>>
    /\ UNCHANGED httpVars
    /\ UNCHANGED notHttpVars
    /\ UNCHANGED urlVars

\* The worker, lines 197-206: run_one_slot has returned, the info is sent if
\* no chunk came, and the thread ends, which drops the sender.
WorkerFinish ==
    /\ wpc = "transfer"
    /\ net.chunks = <<>>
    /\ first' = FALSE
    /\ chan' = IF first /\ receiverAlive
               THEN ChannelSend(chan, InfoMsg(ResponseInfoOf(net))) ELSE chan
    /\ senderAlive' = FALSE
    /\ wpc' = "exited"
    /\ UNCHANGED <<follow_config, initial_request, created, req, attempt, fills,
                   failures, hpc, slotFollow, receiverAlive, net, info, cursor,
                   sent, got, eof>>
    /\ UNCHANGED notHttpVars
    /\ UNCHANGED urlVars
    /\ UNCHANGED uploadVars

\* An execute_once that would hand over whatever the status.
HandsOverAny(i) == TRUE

\* execute_once, line 210: the guard of the arm that gives the response.
HandsOver(i) == i.http_status < 300

\* execute_once, lines 209-217: the first recv().
MainRecvFirst ==
    /\ hpc = "recv"
    /\ chan # <<>> \/ ~senderAlive
    /\ IF chan = <<>>
       THEN /\ hpc' = "drain"
            /\ UNCHANGED <<chan, info>>
       ELSE /\ chan' = Tail(chan)
            /\ IF Head(chan).kind = "data"
               THEN /\ hpc' = "panic" /\ UNCHANGED info
               ELSE IF HandsOver(Head(chan).val)
               THEN /\ hpc' = "reading" /\ info' = Some(Head(chan).val)
               ELSE /\ hpc' = "drain" /\ UNCHANGED info
    /\ IF chan # <<>> /\ hpc' = "reading"
       THEN /\ url' = HandleRedirect(url, warnings, Head(chan).val).url
            /\ warnings' = HandleRedirect(url, warnings, Head(chan).val).warnings
       ELSE UNCHANGED <<url, warnings>>
    /\ UNCHANGED command_url
    /\ cursor' = <<>>
    /\ UNCHANGED <<follow_config, initial_request, created, req, attempt, fills,
                   failures, wpc, slotFollow, first, senderAlive, receiverAlive,
                   net, sent, got, eof>>
    /\ UNCHANGED notHttpVars
    /\ UNCHANGED uploadVars

\* execute_once, line 219: what the worker still sends is received and dropped.
MainDrain ==
    /\ hpc = "drain"
    /\ chan # <<>>
    /\ chan' = Tail(chan)
    /\ UNCHANGED <<follow_config, initial_request, created, req, attempt, fills,
                   failures, hpc, wpc, slotFollow, first, senderAlive,
                   receiverAlive, net, info, cursor, sent, got, eof>>
    /\ UNCHANGED notHttpVars
    /\ UNCHANGED urlVars
    /\ UNCHANGED uploadVars

\* execute_once, lines 219-222, once the sender is dropped, and execute, lines
\* 228-244: the thread is joined and gives its error; a first HTTP_REAUTH
\* fills the credentials and runs execute_once again, anything else dies.
MainFail ==
    /\ hpc = "drain"
    /\ chan = <<>>
    /\ ~senderAlive
    /\ ThreadJoined(wpc)
    /\ IF net.result = HTTP_OK
       THEN /\ hpc' = "panic"
            /\ receiverAlive' = FALSE
            /\ UNCHANGED <<attempt, fills, failures, wpc, first, chan, senderAlive, sent>>
       ELSE /\ failures' = Append(failures, net.result)
            /\ IF attempt = 1 /\ ShouldRetry(net.result)
               THEN /\ fills' = fills + 1
                    /\ Spawn
               ELSE /\ hpc' = "dead"
                    /\ receiverAlive' = FALSE
                    /\ UNCHANGED <<attempt, fills, wpc, first, chan, senderAlive, sent>>
    /\ UNCHANGED <<follow_config, initial_request, created, req, slotFollow, net,
                   info, cursor, got, eof>>
    /\ UNCHANGED notHttpVars
    /\ UNCHANGED urlVars
    /\ UNCHANGED uploadVars

\* Read for HttpResponse, with a buffer of n bytes: the cursor gives what it
\* has; when it has nothing recv() waits for a chunk or for the sender's end.
Read ==
    /\ hpc = "reading"
    /\ cursor # <<>> \/ chan # <<>> \/ ~senderAlive
    /\ \E n \in ReadSizes :
         IF cursor # <<>>
         THEN /\ got' = got \o CursorRead(cursor, n).out
              /\ cursor' = CursorRead(cursor, n).rest
              /\ UNCHANGED <<chan, eof, hpc>>
         ELSE IF chan = <<>>
         THEN /\ eof' = TRUE
              /\ UNCHANGED <<chan, got, cursor, hpc>>
         ELSE IF Head(chan).kind = "info"
         THEN /\ hpc' = "panic"
              /\ chan' = Tail(chan)
              /\ UNCHANGED <<got, cursor, eof>>
         ELSE /\ chan' = Tail(chan)
              /\ got' = got \o CursorRead(Head(chan).val, n).out
              /\ cursor' = CursorRead(Head(chan).val, n).rest
              /\ eof' = (eof \/ CursorRead(Head(chan).val, n).out = <<>>)
              /\ UNCHANGED hpc
    /\ UNCHANGED <<follow_config, initial_request, created, req, attempt, fills,
                   failures, wpc, slotFollow, first, senderAlive, receiverAlive,
                   net, info, sent>>
    /\ UNCHANGED notHttpVars
    /\ UNCHANGED urlVars
    /\ UNCHANGED uploadVars

\* Drop for HttpResponse, line 269: the receiver is dropped, with what the
\* channel holds.
DropResponse ==
    /\ hpc = "reading"
    /\ receiverAlive' = FALSE
    /\ chan' = <<>>
    /\ hpc' = "joining"
    /\ UNCHANGED <<follow_config, initial_request, created, req, attempt, fills,
                   failures, wpc, slotFollow, first, senderAlive, net, info, cursor,
                   sent, got, eof>>
    /\ UNCHANGED notHttpVars
    /\ UNCHANGED urlVars
    /\ UNCHANGED uploadVars

\* Drop for HttpResponse, lines 270-272: the thread is joined.
JoinWorker ==
    /\ hpc = "joining"
    /\ ThreadJoined(wpc)
    /\ hpc' = "idle"
    /\ req' = None
    /\ UNCHANGED <<follow_config, initial_request, created, attempt, fills,
                   failures, wpc, slotFollow, first, chan, senderAlive,
                   receiverAlive, net, info, cursor, sent, got, eof>>
    /\ UNCHANGED notHttpVars
    /\ UNCHANGED urlVars
    /\ UNCHANGED uploadVars

HttpNext ==
    \/ ClientRequest \/ Execute
    \/ WorkerSetup \/ WorkerUpload \/ WorkerWrite \/ WorkerFinish
    \/ MainRecvFirst \/ MainDrain \/ MainFail
    \/ Read \/ DropResponse \/ JoinWorker

SpecHttp == HttpInit /\ [][HttpNext]_vars

\* The worker is a thread of its own and a transfer comes to its end: what the
\* worker can do it does; a join returns once the thread has ended.
HttpFairness ==
    /\ WF_vars(WorkerSetup)
    /\ WF_vars(WorkerWrite)
    /\ WF_vars(WorkerFinish)
    /\ WF_vars(JoinWorker)

SpecHttpLive == SpecHttp /\ HttpFairness

-----------------------------------------------------------------------------
(* Properties of the HTTP client.                                          *)

\* C7: the request in hand follows redirects iff the mode is initial-only and
\* it is the first request of the client, or the mode is always; the client's
\* initial flag is set exactly until the first request is created; and this
\* holds through every attempt of the request, a reauth retry included.
C7_FollowFlag ==
    /\ initial_request = (created = 0)
    /\ IsSome(req) =>
          Unwrap(req).follow_redirects =
              (\/ follow_config = "HTTP_FOLLOW_INITIAL" /\ Unwrap(req).index = 1
               \/ follow_config = "HTTP_FOLLOW_ALWAYS")

\* A later request of an initial-only client is in its reauth retry.
C7_RetryOfLaterRequest ==
    /\ follow_config = "HTTP_FOLLOW_INITIAL"
    /\ IsSome(req) /\ Unwrap(req).index = 2
    /\ attempt = 2 /\ wpc = "transfer"

\* C8: while a transfer runs, a request with a body has redirect-following
\* off on the handle and no redirect is followed for it, whatever the mode
\* and the request's flag; following is on only for a request without body
\* whose flag is set.
C8_BodyNeverFollows ==
    wpc = "transfer" =>
        /\ Unwrap(req).has_body => (~slotFollow /\ net.redirects = 0)
        /\ slotFollow => (~Unwrap(req).has_body /\ Unwrap(req).follow_redirects)
        /\ net.redirects > 0 => slotFollow

\* A request with a body and its flag set is being transferred.
C8_BodyWithFlagRuns ==
    /\ wpc = "transfer"
    /\ Unwrap(req).has_body
    /\ Unwrap(req).follow_redirects

ChannelBytes == Concat([i \in 1..Len(chan) |-> chan[i].val])

\* C10: no body byte is read before the response info is received; once the
\* caller holds the response, the channel holds chunks only, and the bytes
\* read, then those the cursor holds, then those the channel holds are the
\* chunks the worker was given, in order; end-of-stream is reported only
\* after the worker has ended, when every byte has been read.
C10_InfoThenBodyInOrder ==
    /\ hpc \in {"ready", "recv", "drain"} => (got = <<>> /\ ~eof)
    /\ hpc = "reading" =>
          /\ IsSome(info)
          /\ \A i \in 1..Len(chan) : chan[i].kind = "data"
          /\ got \o cursor \o ChannelBytes = Concat(sent)
          /\ eof => (wpc = "exited" /\ got = Concat(sent))
    /\ hpc # "panic"

\* A body of two chunks has been read to its end.
C10_ReadToEnd ==
    /\ hpc = "reading" /\ eof
    /\ Len(sent) = 2
    /\ got = <<2, 3, 1>>

\* C11: a dropped response has its channel closed; the next chunk handed to
\* the write callback after the drop finds the send failed and the callback's
\* return aborts the transfer (no chunk comes after it); and the join of the
\* drop comes to its end.
C11_DropAbortsAndJoins ==
    /\ [](hpc = "joining" => (~receiverAlive /\ chan = <<>>))
    /\ [][(~receiverAlive /\ Len(sent') = Len(sent) + 1)
              => (net'.aborted /\ net'.chunks = <<>> /\ net'.result # HTTP_OK
                  /\ chan' = <<>>)]_vars
    /\ (hpc = "joining" ~> hpc = "idle")

\* The response was dropped with a chunk still to come, which the callback
\* refused; the caller waits in join.
C11_AbortedAfterDrop ==
    /\ hpc = "joining"
    /\ wpc = "transfer"
    /\ net.aborted
    /\ Len(sent) = 2

\* C12: a worker is started only when no worker is alive (none was started
\* yet, or the last one has ended and was joined), in the retry after
\* HTTP_REAUTH as for a new request; and whenever the caller holds no response
\* and waits for none, no worker is alive.
C12_OneWorkerAtATime ==
    /\ [][attempt' = attempt + 1 => wpc \in {"none", "exited"}]_vars
    /\ [](hpc \in {"idle", "ready", "dead"} => wpc \in {"none", "exited"})

\* The worker of the retry of the client's second request has been started.
C12_RetryWorkerStarted ==
    /\ created = 2
    /\ attempt = 2
    /\ wpc = "setup"

\* C13: while a request with a body is transferred, in the first attempt as
\* in the retry, the size declared is the full length of the body and the
\* bytes uploaded in the attempt are the body's first bytes, the reader
\* standing right after them: the upload starts at offset 0.
C13_BodyFromStart ==
    (wpc = "transfer" /\ Unwrap(req).has_body)
        => /\ postSize = Len(body)
           /\ bodyPos = Len(wire)
           /\ wire = Take(body, Len(wire))

\* The retry uploads the body again after the first attempt read all of it.
C13_RetryUploadsAgain ==
    /\ wpc = "transfer"
    /\ attempt = 2
    /\ Unwrap(req).has_body
    /\ body = <<7, 8>>
    /\ wire = <<7>>

\* C14: the response handed over by execute with redirected_to = U makes the
\* base URL U without its query and adds one warning, for that URL; a
\* response without redirected_to leaves the base URL and the warnings as
\* they are, as does every other step; and the URL of each command is the
\* base URL of the time with the command appended to its query.
C14_RedirectMovesBase ==
    /\ [][(hpc = "recv" /\ hpc' = "reading")
            => IF IsSome(info'[1].redirected_to)
               THEN /\ url' = Url(info'[1].redirected_to[1].path, None)
                    /\ warnings' = Append(warnings, url')
               ELSE UNCHANGED <<url, warnings>>]_vars
    /\ [][~(hpc = "recv" /\ hpc' = "reading") => UNCHANGED <<url, warnings>>]_vars
    /\ [][hpc' = "ready"
            => \E c \in {"capabilities", "heads", "pushkey", "unbundle"} :
                 command_url' = Url(url.path, Some(<< <<"cmd", c>> >>))]_vars

\* The second command is sent to the place the capabilities request was
\* redirected to, whose query is not kept.
C14_NextCommandAtNewBase ==
    /\ created = 2 /\ hpc = "ready"
    /\ Len(warnings) = 1
    /\ url = Url("moved", None)
    /\ command_url = Url("moved", Some(<< <<"cmd", "heads">> >>))

-----------------------------------------------------------------------------
(* store.rs, lines 484-630: the set of the changeset heads.                *)

\* The ordinals an add may still give: the counter is capped for the check.
MaxGeneration == 3

\* The changesets of the scenario: 1 is a root, 2 and 3 are its children, 4
\* merges 2 and 3. Their ids are not in the order of their numbers.
Changesets == 1..4
IdDigits == <<11, 3, 7, 5>>
CsId(n) == [i \in 1..HexLen |-> IF i = 1 THEN IdDigits[n] ELSE 0]
CsOf(id) == CHOOSE n \in Changesets : CsId(n) = id

\* b"branch", b"default", and the branch of changeset 3.
KeyBranch == <<98, 114, 97, 110, 99, 104>>
BranchDefault == <<100, 101, 102, 97, 117, 108, 116>>
BranchStable == <<115, 32, 116>>

\* GitChangesetMetadata::extra of each changeset: none, an extra naming the
\* default branch, an extra naming another branch, an extra without branch.
MetadataExtra ==
    << None,
       Some(<< <<KeyBranch, BranchDefault>> >>),
       Some(<< <<KeyBranch, BranchStable>> >>),
       Some(<< <<KeyCommitter, <<99>> >> >>) >>

\* Commit::parents of the Git commit of each changeset, as changesets.
CommitParents == << <<>>, <<1>>, <<1>>, <<2, 3>> >>

\* lookup_replace_commit: there are no replace refs.
LookupReplaceCommit(n) == n

\* meta.extra().and_then(|e| e.get(b"branch")).unwrap_or(b"default")
BranchOf(n) ==
    IF IsSome(MetadataExtra[n]) /\ IsSome(ExtraGet(Unwrap(MetadataExtra[n]), KeyBranch))
    THEN Unwrap(ExtraGet(Unwrap(MetadataExtra[n]), KeyBranch))
    ELSE BranchDefault

\* BTreeMap::get
HeadsGet(hs, id) ==
    IF \E i \in 1..Len(hs) : hs[i].cs = id
    THEN Some(hs[CHOOSE i \in 1..Len(hs) : hs[i].cs = id])
    ELSE None

\* A remove that would empty the map.
HeadsClear(hs, id) == <<>>

\* BTreeMap::remove
HeadsRemove(hs, id) == SelectSeq(hs, LAMBDA e : e.cs # id)

\* BTreeMap::insert: the entry takes the place of one with the same key, or
\* its place in the order of the keys.
RECURSIVE HeadsInsert(_, _)
HeadsInsert(hs, e) ==
    IF hs = <<>> THEN <<e>>
    ELSE IF hs[1].cs = e.cs THEN <<e>> \o Tail(hs)
    ELSE IF LexLess(e.cs, hs[1].cs) THEN <<e>> \o hs
    ELSE <<hs[1]>> \o HeadsInsert(Tail(hs), e)

RECURSIVE HeadsCollect(_, _)
HeadsCollect(hs, entries) ==
    IF entries = <<>> THEN hs
    ELSE HeadsCollect(HeadsInsert(hs, entries[1]), Tail(entries))

\* The order of the tuples (generation, id, branch).
TupleLess(a, b) ==
    \/ a.generation < b.generation
    \/ (a.generation = b.generation /\ LexLess(a.cs, b.cs))
    \/ (a.generation = b.generation /\ a.cs = b.cs /\ LexLess(a.branch, b.branch))

\* An iteration of the map that is left in the order of the ids.
UnsortedHeads(hs) == hs

\* heads.heads.iter().map(..).sorted(): the entries by ascending generation.
RECURSIVE SortedHeads(_)
SortedHeads(hs) ==
    IF Len(hs) <= 1 THEN hs
    ELSE LET i == CHOOSE i \in 1..Len(hs) :
                    \A j \in 1..Len(hs) :
                        ~TupleLess(hs[j], hs[i]) /\ (hs[j] = hs[i] => i <= j)
         IN  <<hs[i]>> \o SortedHeads(Take(hs, i - 1) \o Drop(hs, i))

\* Display for BStr, on ASCII and on bytes that are in no UTF-8 sequence:
\* what is not UTF-8 is written as U+FFFD.
RECURSIVE BStrDisplay(_)
BStrDisplay(b) ==
    IF b = <<>> THEN <<>>
    ELSE (IF b[1] < 128 THEN <<b[1]>> ELSE <<239, 191, 189>>) \o BStrDisplay(Tail(b))

\* A dump that lists the heads in the order of the map.
DumpById(hs) ==
    Concat([i \in 1..Len(hs) |->
              HgIdDisplay(hs[i].cs) \o <<SP>> \o BStrDisplay(hs[i].branch) \o <<LF>>])

\* changeset_heads, lines 572-574: the buffer.
Dump(hs) ==
    Concat([i \in 1..Len(hs) |->
              HgIdDisplay(SortedHeads(hs)[i].cs) \o <<SP>>
                  \o BStrDisplay(SortedHeads(hs)[i].branch) \o <<LF>>])

\* A checkpoint that lists the heads in the order of the map.
CommitTextById(hs) ==
    Concat([i \in 1..Len(hs) |->
              <<LF>> \o HgIdDisplay(UnsortedHeads(hs)[i].cs) \o <<SP>>
                  \o BStrDisplay(UnsortedHeads(hs)[i].branch)])

\* store_changesets_metadata, lines 612-614: what follows the committer line.
CommitText(hs) ==
    Concat([i \in 1..Len(hs) |->
              <<LF>> \o HgIdDisplay(SortedHeads(hs)[i].cs) \o <<SP>>
                  \o BStrDisplay(SortedHeads(hs)[i].branch)])

\* store_changesets_metadata, lines 606-614: the commit, as its parents (the
\* Git commits of the heads, named by their changesets) and what follows the
\* committer line.
CheckpointCommit(hs) ==
    [parents |-> [i \in 1..Len(hs) |-> CsOf(SortedHeads(hs)[i].cs)],
     text |-> CommitText(hs)]

\* Commit::body: what follows the empty line that ends the header.
CommitBody(c) == IF c.text = <<>> THEN <<>> ELSE Tail(c.text)

\* ByteSlice::lines: the pieces between line feeds, without the carriage
\* return before a line feed; no last line after a final line feed.
StripCr(l) == IF l # <<>> /\ Last(l) = 13 THEN DropLast(l) ELSE l
Lines(b) ==
    IF b = <<>> THEN <<>>
    ELSE Bind(Split(b, <<LF>>), LAMBDA ps :
         Bind(IF Last(ps) = <<>> THEN DropLast(ps) ELSE ps, LAMBDA ls :
             [i \in 1..Len(ls) |-> IF i < Len(ps) THEN StripCr(ls[i]) ELSE ls[i]]))

\* ChangesetHeads::new, lines 502-505: the entry of line n (from 0), or None
\* where an unwrap panics.
HeadOfLine(l, n) ==
    Bind(SplitnExact(l, 2, <<SP>>), LAMBDA hb :
        IF IsNone(hb) THEN None
        ELSE Bind(HgIdFromBytes(Unwrap(hb)[1]), LAMBDA h :
            IF IsNone(h) THEN None
            ELSE Some([cs |-> Unwrap(h), branch |-> Unwrap(hb)[2], generation |-> n])))

\* ChangesetHeads::new
ChangesetHeadsNew(ref) ==
    IF IsNone(ref) THEN Ok([generation |-> 0, heads |-> <<>>])
    ELSE Bind(Lines(CommitBody(Unwrap(ref))), LAMBDA ls :
         Bind(CollectOptions([i \in 1..Len(ls) |-> HeadOfLine(ls[i], i - 1)]), LAMBDA es :
             IF IsNone(es) THEN Panic
             ELSE Bind(HeadsCollect(<<>>, Unwrap(es)), LAMBDA hs :
                 Ok([generation |-> Len(hs), heads |-> hs]))))

\* A test that takes every parent for one of the branch.
AnyBranch(parent_branch, branch) == TRUE

\* add_changeset_head, line 552: parent_branch == branch.
SameBranch(parent_branch, branch) == parent_branch = branch

\* add_changeset_head, lines 541-558: the loop over the parents; Panic where
\* the assertion on the branch of a parent fails.
RECURSIVE RemoveParents(_, _, _)
RemoveParents(hs, parents, branch) ==
    IF parents = <<>> THEN Ok(hs)
    ELSE Bind(LookupReplaceCommit(parents[1]), LAMBDA parent :
         IF SameBranch(BranchOf(parent), branch) /\ IsSome(HeadsGet(hs, CsId(parent)))
         THEN IF Unwrap(HeadsGet(hs, CsId(parent))).branch # BranchOf(parent)
              THEN Panic
              ELSE RemoveParents(HeadsRemove(hs, CsId(parent)), Tail(parents), branch)
         ELSE RemoveParents(hs, Tail(parents), branch))

\* An add that gives every head the generation of the first.
GenerationStuck(n) == 0

\* add_changeset_head, line 560: the generation given to the new head.
GenerationFor(n) == n

\* An add that would leave the counter as it is.
InsertHeadSameCounter(h, n) ==
    [generation |-> h.generation,
     heads |-> HeadsInsert(h.heads, [cs |-> CsId(n), branch |-> BranchOf(n),
                                     generation |-> h.generation])]

\* add_changeset_head, lines 560-562: the new head.
InsertHead(h, n) ==
    [generation |-> h.generation + 1,
     heads |-> HeadsInsert(h.heads, [cs |-> CsId(n), branch |-> BranchOf(n),
                                     generation |-> GenerationFor(h.generation)])]

\* add_changeset_head with a metadata id that is not null.
AddChangesetHead(h, n) ==
    Bind(RemoveParents(h.heads, CommitParents[n], BranchOf(n)), LAMBDA r :
        IF IsPanic(r) THEN Panic
        ELSE Ok(InsertHead([generation |-> h.generation, heads |-> r.val], n)))

HeadsInit ==
    /\ metadata = None
    /\ heads = ChangesetHeadsNew(None).val.heads
    /\ generation = ChangesetHeadsNew(None).val.generation
    /\ output = <<>>
    /\ lastOp = [op |-> "none", cs |-> <<>>]
    /\ assigned = -1
    /\ cpc = "run"
    /\ LockIdle
    /\ NotHeadsIdle

\* add_changeset_head(cs, oid) with the id of the metadata of cs.
Add ==
    /\ cpc = "run"
    /\ generation < MaxGeneration
    /\ \E n \in Changesets :
         \E r \in {AddChangesetHead([generation |-> generation, heads |-> heads], n)} :
           /\ lastOp' = [op |-> "add", cs |-> CsId(n),
                         before |-> HeadsGet(heads, CsId(n))]
           /\ IF IsPanic(r)
              THEN /\ cpc' = "panic"
                   /\ UNCHANGED <<heads, generation, assigned>>
              ELSE /\ heads' = r.val.heads
                   /\ generation' = r.val.generation
                   /\ assigned' = IF generation > assigned THEN generation ELSE assigned
                   /\ UNCHANGED cpc
    /\ output' = <<>>
    /\ UNCHANGED metadata
    /\ UNCHANGED notHeadsVars
    /\ UNCHANGED lockVars

\* add_changeset_head(cs, oid) with the null id: line 530.
Remove ==
    /\ cpc = "run"
    /\ \E n \in Changesets :
         /\ heads' = HeadsRemove(heads, CsId(n))
         /\ lastOp' = [op |-> "remove", cs |-> CsId(n),
                       before |-> HeadsGet(heads, CsId(n))]
    /\ output' = <<>>
    /\ UNCHANGED <<generation, metadata, assigned, cpc>>
    /\ UNCHANGED notHeadsVars
    /\ UNCHANGED lockVars

\* changeset_heads
ChangesetHeads ==
    /\ cpc = "run"
    /\ output' = Dump(heads)
    /\ lastOp' = [op |-> "dump", cs |-> <<>>]
    /\ UNCHANGED <<heads, generation, metadata, assigned, cpc>>
    /\ UNCHANGED notHeadsVars
    /\ UNCHANGED lockVars

\* store_changesets_metadata, and its caller, which makes the commit the
\* first parent of refs/cinnabar/metadata.
StoreChangesetsMetadata ==
    /\ cpc = "run"
    /\ metadata' = Some(CheckpointCommit(heads))
    /\ lastOp' = [op |-> "checkpoint", cs |-> <<>>]
    /\ output' = <<>>
    /\ UNCHANGED <<heads, generation, assigned, cpc>>
    /\ UNCHANGED notHeadsVars
    /\ UNCHANGED lockVars

\* reset_changeset_heads
ResetChangesetHeads ==
    /\ cpc = "run"
    /\ \E r \in {ChangesetHeadsNew(metadata)} :
         IF IsPanic(r)
         THEN /\ cpc' = "panic"
              /\ UNCHANGED <<heads, generation>>
         ELSE /\ heads' = r.val.heads
              /\ generation' = r.val.generation
              /\ UNCHANGED cpc
    /\ lastOp' = [op |-> "reset", cs |-> <<>>]
    /\ output' = <<>>
    /\ UNCHANGED <<metadata, assigned>>
    /\ UNCHANGED notHeadsVars
    /\ UNCHANGED lockVars

HeadsNext ==
    \/ Add \/ Remove \/ ChangesetHeads \/ StoreChangesetsMetadata
    \/ ResetChangesetHeads

SpecHeads == HeadsInit /\ [][HeadsNext]_vars

\* C15: a checkpoint leaves the heads as they are, and a reset that comes
\* right after a checkpoint gives heads whose dump is the dump of the heads
\* before it, line for line and in the same order.
C15_CheckpointResetSameDump ==
    /\ [][lastOp'.op = "checkpoint" => Dump(heads') = Dump(heads)]_vars
    /\ [][(lastOp.op = "checkpoint" /\ lastOp'.op = "reset")
            => (cpc' = "run" /\ Dump(heads') = Dump(heads))]_vars

\* After a checkpoint and a reset, two heads whose ordinals were not 0 and 1
\* and whose order is not that of their ids.
C15_ReloadedTwoHeads ==
    /\ lastOp.op = "reset"
    /\ metadata # None
    /\ Len(heads) = 2
    /\ assigned = 2
    /\ generation = 2
    /\ LexLess(SortedHeads(heads)[2].cs, SortedHeads(heads)[1].cs)

\* C16, as stated: every add gives an ordinal strictly greater than every
\* ordinal given earlier in the process, adds after a reset included.
C16_OrdinalsIncreaseForever ==
    [][(lastOp'.op = "add" /\ cpc' = "run")
         => Unwrap(HeadsGet(heads', lastOp'.cs)).generation > assigned]_vars

\* C16, amended: an add gives the value of the counter, which is strictly
\* greater than the ordinal of every head of the set, and adds one to the
\* counter; remove, dump and checkpoint leave the counter as it is; a reset
\* sets the counter to the number of the heads it has loaded.
C16_OrdinalsIncreaseBetweenResets ==
    /\ [][(lastOp'.op = "add" /\ cpc' = "run")
            => /\ Unwrap(HeadsGet(heads', lastOp'.cs)).generation = generation
               /\ generation' = generation + 1
               /\ \A i \in 1..Len(heads) : heads[i].generation < generation]_vars
    /\ [][lastOp'.op \in {"remove", "dump", "checkpoint"}
            => generation' = generation]_vars
    /\ [][(lastOp'.op = "reset" /\ cpc' = "run") => generation' = Len(heads')]_vars

\* An add after a reset has given an ordinal smaller than one given before.
C16_AddAfterResetReusesOrdinal ==
    /\ lastOp.op = "add"
    /\ cpc = "run"
    /\ Unwrap(HeadsGet(heads, lastOp.cs)).generation < assigned

\* The line of a head in a dump.
HeadLine(e) == HgIdDisplay(e.cs) \o <<SP>> \o e.branch \o <<LF>>

\* The same heads, the ordinals of the first and the second exchanged.
Exchanged(hs) ==
    <<[hs[1] EXCEPT !.generation = hs[2].generation],
      [hs[2] EXCEPT !.generation = hs[1].generation]>>

\* C17: what a dump sends is the lines of some arrangement of the heads, each
\* head once, in which the ordinals ascend; two heads give another dump when
\* their ordinals are exchanged.
C17_DumpInOrdinalOrder ==
    lastOp.op = "dump"
        => /\ \E order \in [1..Len(heads) -> 1..Len(heads)] :
                /\ \A i, j \in 1..Len(heads) :
                     i < j => heads[order[i]].generation < heads[order[j]].generation
                /\ output = Concat([i \in 1..Len(heads) |-> HeadLine(heads[order[i]])])
           /\ Len(heads) = 2 => output # Dump(Exchanged(heads))

\* A dump of two heads whose first line is that of the greater id.
C17_DumpNotInIdOrder ==
    /\ lastOp.op = "dump"
    /\ Len(heads) = 2
    /\ heads[2].generation < heads[1].generation
    /\ output = HeadLine(heads[2]) \o HeadLine(heads[1])

\* The parents of the Git commit of a changeset, as a set.
ParentSet(n) == {CommitParents[n][i] : i \in 1..Len(CommitParents[n])}

\* C18: an add of a changeset with its metadata succeeds and makes it a head
\* with the branch of its extra, or "default"; the parents of its commit that
\* are on that branch are not heads; every other changeset, a parent on
\* another branch included, is a head as before, with its branch and ordinal,
\* or is not a head as before.
C18_AddFrame ==
    [][lastOp'.op = "add"
         => /\ cpc' = "run"
            /\ IsSome(HeadsGet(heads', lastOp'.cs))
            /\ Unwrap(HeadsGet(heads', lastOp'.cs)).branch
                 = (IF CsOf(lastOp'.cs) = 2 THEN BranchDefault
                    ELSE IF CsOf(lastOp'.cs) = 3 THEN BranchStable
                    ELSE BranchDefault)
            /\ \A p \in Changesets :
                 IF p = CsOf(lastOp'.cs) THEN TRUE
                 ELSE IF p \in ParentSet(CsOf(lastOp'.cs))
                         /\ BranchOf(p) = BranchOf(CsOf(lastOp'.cs))
                 THEN IsNone(HeadsGet(heads', CsId(p)))
                 ELSE HeadsGet(heads', CsId(p)) = HeadsGet(heads, CsId(p))]_vars

\* The merge has been added after its two parents: the parent on the other
\* branch is still a head, the parent on its branch is not.
C18_MergeAdded ==
    /\ lastOp.op = "add" /\ lastOp.cs = CsId(4)
    /\ Len(heads) = 2
    /\ IsSome(HeadsGet(heads, CsId(3)))
    /\ Unwrap(HeadsGet(heads, CsId(3))).generation = 1
    /\ Unwrap(HeadsGet(heads, CsId(4))).generation = 2
    /\ assigned = 2

-----------------------------------------------------------------------------
(* store.rs, lines 518-630: the operations of the head set called from     *)
(* several threads, each one step at a time.                               *)

\* The number of operations called.
MaxCalls == 3

Threads == {1, 2}

\* The operations a thread may call.
Jobs ==
    { [op |-> "add", cs |-> n] : n \in Changesets }
    \cup { [op |-> "remove", cs |-> 3], [op |-> "dump", cs |-> 0],
           [op |-> "checkpoint", cs |-> 0], [op |-> "reset", cs |-> 0] }

\* The heads once the two children of the root have been added.
TwoHeads ==
    AddChangesetHead(AddChangesetHead(ChangesetHeadsNew(None).val, 2).val, 3).val

\* A mutex that any thread may take at any time.
MutexAlwaysFree(o) == TRUE

\* Mutex::lock: the thread goes on when no thread holds the mutex.
MutexFree(o) == o = 0

\* Where a thread is once it holds the mutex.
FirstStep(j) ==
    IF j.op = "add" THEN "parents" ELSE j.op

ThreadsInit ==
    /\ metadata = None
    /\ heads = TwoHeads.heads
    /\ generation = TwoHeads.generation
    /\ output = <<>>
    /\ lastOp = [op |-> "none", cs |-> <<>>]
    /\ assigned = 1
    /\ cpc = "run"
    /\ owner = 0
    /\ tpc = [t \in Threads |-> "idle"]
    /\ job = [t \in Threads |-> [op |-> "none", cs |-> 0]]
    /\ local = [t \in Threads |-> <<>>]
    /\ stable = TwoHeads.heads
    /\ calls = 0
    /\ NotHeadsIdle

\* The end of an operation: the guard of the mutex is dropped.
Release(t) ==
    /\ owner' = 0
    /\ tpc' = [tpc EXCEPT ![t] = "idle"]
    /\ lastOp' = [op |-> job[t].op, cs |-> <<>>]

\* A thread calls an operation; what add does before line 527 and
\* store_changesets_metadata before line 606 does not touch the heads.
Call ==
    \E t \in Threads :
      /\ tpc[t] = "idle"
      /\ calls < MaxCalls
      /\ calls' = calls + 1
      /\ \E j \in Jobs : job' = [job EXCEPT ![t] = j]
      /\ tpc' = [tpc EXCEPT ![t] = "lock"]
      /\ UNCHANGED <<owner, local, stable>>
      /\ UNCHANGED headsVars
      /\ UNCHANGED notHeadsVars

\* CHANGESET_HEADS.lock().unwrap(), lines 527, 569, 606 and 628.
Lock ==
    \E t \in Threads :
      /\ tpc[t] = "lock"
      /\ MutexFree(owner)
      /\ owner' = t
      /\ tpc' = [tpc EXCEPT ![t] = FirstStep(job[t])]
      /\ local' = [local EXCEPT ![t] = IF job[t].op = "add"
                                       THEN CommitParents[job[t].cs] ELSE <<>>]
      /\ UNCHANGED <<job, stable, calls>>
      /\ UNCHANGED headsVars
      /\ UNCHANGED notHeadsVars

\* add_changeset_head, lines 541-558: one turn of the loop over the parents.
AddParent ==
    \E t \in Threads :
      /\ tpc[t] = "parents"
      /\ local[t] # <<>>
      /\ \E r \in {RemoveParents(heads, <<Head(local[t])>>, BranchOf(job[t].cs))} :
           IF IsPanic(r) THEN cpc' = "panic" /\ UNCHANGED heads
           ELSE heads' = r.val /\ UNCHANGED cpc
      /\ local' = [local EXCEPT ![t] = Tail(@)]
      /\ UNCHANGED <<generation, metadata, output, lastOp, assigned>>
      /\ UNCHANGED <<owner, tpc, job, stable, calls>>
      /\ UNCHANGED notHeadsVars

\* add_changeset_head, lines 560-563: the head is inserted.
AddInsert ==
    \E t \in Threads :
      /\ tpc[t] = "parents"
      /\ local[t] = <<>>
      /\ heads' = InsertHead([generation |-> generation, heads |-> heads],
                             job[t].cs).heads
      /\ generation' = generation + 1
      /\ assigned' = IF generation > assigned THEN generation ELSE assigned
      /\ Release(t)
      /\ UNCHANGED <<metadata, output, cpc>>
      /\ UNCHANGED <<job, local, calls>>
      /\ UNCHANGED notHeadsVars
      /\ stable' = heads'

\* add_changeset_head with a null oid, line 530.
RemoveLocked ==
    \E t \in Threads :
      /\ tpc[t] = "remove"
      /\ heads' = HeadsRemove(heads, CsId(job[t].cs))
      /\ Release(t)
      /\ UNCHANGED <<generation, metadata, output, assigned, cpc>>
      /\ UNCHANGED <<job, local, calls>>
      /\ UNCHANGED notHeadsVars
      /\ stable' = heads'

\* changeset_heads, lines 571-575.
DumpLocked ==
    \E t \in Threads :
      /\ tpc[t] = "dump"
      /\ output' = Dump(heads)
      /\ Release(t)
      /\ UNCHANGED <<heads, generation, metadata, assigned, cpc>>
      /\ UNCHANGED <<job, local, calls>>
      /\ UNCHANGED notHeadsVars
      /\ stable' = heads'

\* store_changesets_metadata, lines 607-609: the parent lines.
CheckpointParents ==
    \E t \in Threads :
      /\ tpc[t] = "checkpoint"
      /\ local' = [local EXCEPT ![t] = CheckpointCommit(heads).parents]
      /\ tpc' = [tpc EXCEPT ![t] = "body"]
      /\ UNCHANGED <<owner, job, stable, calls>>
      /\ UNCHANGED headsVars
      /\ UNCHANGED notHeadsVars

\* store_changesets_metadata, lines 612-621: the body, and the commit.
CheckpointBody ==
    \E t \in Threads :
      /\ tpc[t] = "body"
      /\ metadata' = Some([parents |-> local[t], text |-> CommitText(heads)])
      /\ Release(t)
      /\ UNCHANGED <<heads, generation, output, assigned, cpc>>
      /\ UNCHANGED <<job, local, calls>>
      /\ UNCHANGED notHeadsVars
      /\ stable' = heads'

\* reset_changeset_heads, line 629.
ResetLocked ==
    \E t \in Threads :
      /\ tpc[t] = "reset"
      /\ \E r \in {ChangesetHeadsNew(metadata)} :
           IF IsPanic(r)
           THEN /\ cpc' = "panic"
                /\ UNCHANGED <<heads, generation>>
           ELSE /\ heads' = r.val.heads
                /\ generation' = r.val.generation
                /\ UNCHANGED cpc
      /\ Release(t)
      /\ UNCHANGED <<metadata, output, assigned>>
      /\ UNCHANGED <<job, local, calls>>
      /\ UNCHANGED notHeadsVars
      /\ stable' = heads'

ThreadsNext ==
    \/ Call \/ Lock \/ AddParent \/ AddInsert \/ RemoveLocked \/ DumpLocked
    \/ CheckpointParents \/ CheckpointBody \/ ResetLocked

SpecThreads == ThreadsInit /\ [][ThreadsNext]_vars

\* The steps a thread takes with the mutex held.
Critical == {"parents", "remove", "dump", "checkpoint", "body", "reset"}

\* The changesets named in the body of a checkpoint commit.
BodyHeads(c) ==
    [i \in 1..Len(Lines(CommitBody(c))) |->
        CsOf(Unwrap(HeadOfLine(Lines(CommitBody(c))[i], i - 1)).cs)]

\* C19: a thread is in its operation only with the mutex, so no two threads
\* are; while no thread holds the mutex the heads are as the last finished
\* operation left them; a dump sends, and a checkpoint lists, those heads and
\* never the heads of an add that has removed a parent and not yet inserted
\* the child; the parents and the body of a checkpoint commit name the same
\* heads in the same order.
C19_OperationsAtomic ==
    /\ [](\A t \in Threads : tpc[t] \in Critical => owner = t)
    /\ [](owner = 0 => heads = stable)
    /\ [][\A t \in Threads :
            (tpc[t] = "dump" /\ tpc'[t] = "idle")
                => (output' = Dump(stable) /\ \A u \in Threads : tpc[u] # "parents")]_vars
    /\ [][\A t \in Threads :
            (tpc[t] = "body" /\ tpc'[t] = "idle")
                => (metadata' = Some(CheckpointCommit(stable))
                    /\ \A u \in Threads : tpc[u] # "parents")]_vars
    /\ [](IsSome(metadata) => Unwrap(metadata).parents = BodyHeads(Unwrap(metadata)))

\* The add of the merge has removed the parent on its branch and has not yet
\* inserted the merge, while the other thread waits for the mutex to dump.
C19_DumpWaitsForAdd ==
    \E t, u \in Threads :
        /\ tpc[t] = "parents" /\ job[t] = [op |-> "add", cs |-> 4]
        /\ local[t] = <<3>>
        /\ IsNone(HeadsGet(heads, CsId(2)))
        /\ tpc[u] = "lock" /\ job[u].op \in {"dump", "checkpoint"}

-----------------------------------------------------------------------------
(* hg_connect_http.rs, lines 520-606: get_http_connection and the bundle   *)
(* behind a URL.                                                           *)

\* The number of chunks a body comes in.
MaxPieces == 3

\* b"HG10", b"HG20"
StrHG10 == <<72, 71, 49, 48>>
StrHG20 == <<72, 71, 50, 48>>

\* The bodies a server may answer the first request with: bundles, with and
\* without payload, a list of capabilities, bodies of less than four bytes,
\* and a body that only looks like a bundle.
OpenBodies ==
    { StrHG20 \o <<1, 2>>, StrHG10, StrHG10 \o <<3>>, <<>>, <<72, 71, 50>>,
      <<97, 32, 98, 99, 100>>, <<72, 71, 51, 48, 9>> }

\* The ways a body comes in chunks, none of them empty.
RECURSIVE Pieces(_, _)
Pieces(b, k) ==
    IF b = <<>> THEN { <<>> }
    ELSE IF k <= 1 THEN { <<b>> }
    ELSE { <<b>> }
         \cup UNION { { <<Take(b, i)>> \o rest : rest \in Pieces(Drop(b, i), k - 1) } :
                        i \in 1..(Len(b) - 1) }

\* The sizes of the buffers copy and the decompressor read with.
BufSizes == {1, 4, 8}

\* Read for HttpResponse, lines 247-264, with a buffer of n bytes, the chunks
\* to come standing for what recv() gives: the bytes read and the response.
ResponseRead(r, n) ==
    IF CursorRead(r.cursor, n).out # <<>> \/ r.chunks = <<>>
    THEN [out |-> CursorRead(r.cursor, n).out,
          resp |-> [r EXCEPT !.cursor = CursorRead(r.cursor, n).rest]]
    ELSE [out |-> CursorRead(Head(r.chunks), n).out,
          resp |-> [cursor |-> CursorRead(Head(r.chunks), n).rest,
                    chunks |-> Tail(r.chunks)]]

\* A bundle whose reader leaves out the bytes already read.
ChainWithoutHeader(h) == <<>>

\* getbundle, line 546: Cursor::new(self.header).
ChainCursor(h) == h

\* Chain::read with a buffer of n bytes: the first reader, then the second
\* once the first gives nothing.
ChainRead(c, r, n) ==
    IF CursorRead(c, n).out # <<>>
    THEN [out |-> CursorRead(c, n).out, chain |-> CursorRead(c, n).rest, resp |-> r]
    ELSE [out |-> ResponseRead(r, n).out, chain |-> c, resp |-> ResponseRead(r, n).resp]

\* get_http_connection, line 593: the headers of a bundle.
IsBundleHeader(h) == h = StrHG10 \/ h = StrHG20

OpenInit ==
    /\ opc = "start"
    /\ served \in OpenBodies
    /\ http_resp = <<>> /\ header = <<>> /\ kind = "none" /\ caps = <<>>
    /\ chain = <<>> /\ fed = <<>>
    /\ UrlIdle
    /\ NotOpenIdle

\* get_http_connection, lines 563-589: the connection is made, the first
\* request is built and executed, and the header is an empty buffer.
GetHttpConnection ==
    /\ opc = "start"
    /\ command_url' = CommandUrl(url, "capabilities")
    /\ \E cs \in Pieces(served, MaxPieces) : http_resp' = [cursor |-> <<>>, chunks |-> cs]
    /\ opc' = "header"
    /\ UNCHANGED <<url, warnings>>
    /\ UNCHANGED <<header, kind, caps, chain, fed, served>>
    /\ UNCHANGED notOpenVars

\* ReadExt::read_at_most, line 590: one read of what the header still takes;
\* it ends when the header is full or a read gives nothing.
ReadAtMost ==
    /\ opc = "header"
    /\ IF Len(header) = 4 \/ ResponseRead(http_resp, 4 - Len(header)).out = <<>>
       THEN /\ opc' = "match"
            /\ UNCHANGED <<header, http_resp>>
       ELSE /\ header' = header \o ResponseRead(http_resp, 4 - Len(header)).out
            /\ http_resp' = ResponseRead(http_resp, 4 - Len(header)).resp
            /\ UNCHANGED opc
    /\ UNCHANGED <<kind, caps, chain, fed, served>>
    /\ UNCHANGED urlVars
    /\ UNCHANGED notOpenVars

\* get_http_connection, lines 592-600: the match on the header.
MatchHeader ==
    /\ opc = "match"
    /\ IF IsBundleHeader(header)
       THEN /\ kind' = "bundle"
            /\ opc' = "bundle"
            /\ UNCHANGED caps
       ELSE /\ kind' = "wire"
            /\ opc' = "copy"
            /\ caps' = header
    /\ UNCHANGED <<http_resp, header, chain, fed, served>>
    /\ UNCHANGED urlVars
    /\ UNCHANGED notOpenVars

\* get_http_connection, line 601: one read of copy; when it gives nothing
\* the capabilities are parsed from caps.
CopyCapabilities ==
    /\ opc = "copy"
    /\ \E n \in BufSizes :
         IF ResponseRead(http_resp, n).out = <<>>
         THEN /\ opc' = "done"
              /\ UNCHANGED <<caps, http_resp>>
         ELSE /\ caps' = caps \o ResponseRead(http_resp, n).out
              /\ http_resp' = ResponseRead(http_resp, n).resp
              /\ UNCHANGED opc
    /\ UNCHANGED <<header, kind, chain, fed, served>>
    /\ UNCHANGED urlVars
    /\ UNCHANGED notOpenVars

\* HgHttpBundle::getbundle, lines 545-546: the reader of the decompressor.
GetBundle ==
    /\ opc = "bundle"
    /\ chain' = ChainCursor(header)
    /\ opc' = "feed"
    /\ UNCHANGED <<http_resp, header, kind, caps, fed, served>>
    /\ UNCHANGED urlVars
    /\ UNCHANGED notOpenVars

\* HgHttpBundle::getbundle, line 547: one read of the decompressor.
FeedDecompressor ==
    /\ opc = "feed"
    /\ \E n \in BufSizes :
         IF ChainRead(chain, http_resp, n).out = <<>>
         THEN /\ opc' = "done"
              /\ UNCHANGED <<fed, chain, http_resp>>
         ELSE /\ fed' = fed \o ChainRead(chain, http_resp, n).out
              /\ chain' = ChainRead(chain, http_resp, n).chain
              /\ http_resp' = ChainRead(chain, http_resp, n).resp
              /\ UNCHANGED opc
    /\ UNCHANGED <<header, kind, caps, served>>
    /\ UNCHANGED urlVars
    /\ UNCHANGED notOpenVars

OpenNext ==
    \/ GetHttpConnection \/ ReadAtMost \/ MatchHeader \/ CopyCapabilities
    \/ GetBundle \/ FeedDecompressor

SpecOpen == OpenInit /\ [][OpenNext]_vars

\* C20: the first request is the capabilities command; what is returned is a
\* bundle exactly when the body starts with HG10 or HG20; the decompressor of
\* a bundle reads the bytes of the body from the first on, and all of them
\* once by the end; the capabilities are parsed from all the bytes of the
\* body, in order, those of a body of less than four bytes included.
C20_BundleOrCapabilities ==
    /\ opc # "start" => command_url = Url("repo", Some(<< <<"cmd", "capabilities">> >>))
    /\ kind = "bundle" <=>
         (opc \in {"bundle", "feed", "done"}
          /\ Len(served) >= 4
          /\ SubSeq(served, 1, 4) \in {StrHG10, StrHG20})
    /\ kind = "wire" <=>
         (opc \in {"copy", "done"}
          /\ ~(Len(served) >= 4 /\ SubSeq(served, 1, 4) \in {StrHG10, StrHG20}))
    /\ opc = "feed" => fed = SubSeq(served, 1, Len(fed))
    /\ opc = "copy" => caps = SubSeq(served, 1, Len(caps))
    /\ (opc = "done" /\ kind = "bundle") => fed = served
    /\ (opc = "done" /\ kind = "wire") => caps = served

\* The decompressor has read a bundle of six bytes to its end.
C20_BundleAcrossChunks ==
    /\ opc = "done"
    /\ kind = "bundle"
    /\ served = StrHG20 \o <<1, 2>>
    /\ fed = served

\* The capabilities have been read from a body of three bytes.
C20_ShortBody ==
    /\ opc = "done"
    /\ kind = "wire"
    /\ served = <<72, 71, 50>>
    /\ caps = served

-----------------------------------------------------------------------------
(* hg_connect_http.rs, lines 425-504: changegroup_command and push_command, *)
(* from the response execute() has handed over.                            *)

\* b"remote: ", b"err\n"
StrRemote == <<114, 101, 109, 111, 116, 101, 58, 32>>
StrErrLf == <<101, 114, 114, LF>>

\* What a server may answer unbundle with: "abc LF def LF", a bundle, bodies
\* without line feed, bodies of less than four bytes, a body that is one line
\* feed, and output with two lines for the diagnostic stream.
PushBodies ==
    { <<97, 98, 99, LF, 100, 101, 102, LF>>, StrHG20 \o <<1, LF>>, StrHG20,
      <<97, 98>>, <<97, LF>>, <<LF>>, <<>>, <<97, 98, 99, 100, 101>>,
      <<49, LF, 120, LF, 121>> }

\* PrefixWriter::write: the prefix goes before the first byte of each line.
RECURSIVE PrefixWrite(_, _, _)
PrefixWrite(prefix, atStart, bytes) ==
    IF bytes = <<>> THEN [out |-> <<>>, atStart |-> atStart]
    ELSE Bind(PrefixWrite(prefix, bytes[1] = LF, Tail(bytes)), LAMBDA rest :
             [out |-> (IF atStart THEN prefix ELSE <<>>) \o <<bytes[1]>> \o rest.out,
              atStart |-> rest.atStart])

\* A split of the server's output at its last line feed.
SplitAtLast(buf) ==
    IF \E i \in 1..Len(buf) : buf[i] = LF
    THEN Bind(CHOOSE i \in 1..Len(buf) :
                 buf[i] = LF /\ \A j \in (i + 1)..Len(buf) : buf[j] # LF, LAMBDA i :
             Some(<<Take(buf, i - 1), Drop(buf, i)>>))
    ELSE None

\* push_command, line 493: buf.splitn_exact(b'\n') into two.
SplitOutput(buf) == SplitnExact(buf, 2, <<LF>>)

CmdInit ==
    /\ kpc = "start"
    /\ command = ""
    /\ content_type = None
    /\ response = <<>> /\ diag = <<>> /\ lineStart = TRUE
    /\ comp_len = 0 /\ comp = <<>> /\ payload = <<>>
    /\ OpenIdle
    /\ NotCmdIdle

\* push_command, lines 479-484: the request is executed and header is empty.
PushCommand ==
    /\ kpc = "start"
    /\ command' = "unbundle"
    /\ \E b \in PushBodies :
         /\ served' = b
         /\ \E cs \in Pieces(b, MaxPieces) : http_resp' = [cursor |-> <<>>, chunks |-> cs]
    /\ kpc' = "push_header"
    /\ UNCHANGED <<content_type, response, diag, lineStart, comp_len, comp, payload>>
    /\ UNCHANGED <<opc, header, kind, caps, chain, fed>>
    /\ UNCHANGED notCmdVars

\* push_command, line 485: one read of read_at_most; when the header is full
\* or a read gives nothing, lines 486-491: the bundle's header is given to
\* the caller, or the output's first bytes are kept.
PushReadAtMost ==
    /\ kpc = "push_header"
    /\ IF Len(header) = 4 \/ ResponseRead(http_resp, 4 - Len(header)).out = <<>>
       THEN /\ kpc' = IF header = StrHG20 THEN "push_bundle" ELSE "push_output"
            /\ response' = IF header = StrHG20 THEN header ELSE response
            /\ UNCHANGED <<header, http_resp>>
       ELSE /\ header' = header \o ResponseRead(http_resp, 4 - Len(header)).out
            /\ http_resp' = ResponseRead(http_resp, 4 - Len(header)).resp
            /\ UNCHANGED <<kpc, response>>
    /\ UNCHANGED <<content_type, diag, lineStart, comp_len, comp, payload>>
    /\ UNCHANGED <<opc, kind, caps, chain, fed, served>>
    /\ UNCHANGED command
    /\ UNCHANGED notCmdVars

\* push_command, line 488: one read of copy into the response.
PushCopyBundle ==
    /\ kpc = "push_bundle"
    /\ \E n \in BufSizes :
         IF ResponseRead(http_resp, n).out = <<>>
         THEN /\ kpc' = "done"
              /\ UNCHANGED <<response, http_resp>>
         ELSE /\ response' = response \o ResponseRead(http_resp, n).out
              /\ http_resp' = ResponseRead(http_resp, n).resp
              /\ UNCHANGED kpc
    /\ UNCHANGED <<content_type, diag, lineStart, comp_len, comp, payload>>
    /\ UNCHANGED <<opc, header, kind, caps, chain, fed, served>>
    /\ UNCHANGED command
    /\ UNCHANGED notCmdVars

\* push_command, lines 491-501: one read of read_to_end into buf, which
\* starts as the header; at the end buf is split: its first line is the
\* response and the rest goes to stderr behind the prefix, or the process
\* panics.
PushReadToEnd ==
    /\ kpc = "push_output"
    /\ \E n \in BufSizes :
         IF ResponseRead(http_resp, n).out # <<>>
         THEN /\ header' = header \o ResponseRead(http_resp, n).out
              /\ http_resp' = ResponseRead(http_resp, n).resp
              /\ UNCHANGED <<kpc, response, diag, lineStart>>
         ELSE /\ UNCHANGED <<header, http_resp>>
              /\ IF IsSome(SplitOutput(header))
                 THEN /\ response' = Unwrap(SplitOutput(header))[1]
                      /\ diag' = diag \o PrefixWrite(StrRemote, lineStart,
                                                    Unwrap(SplitOutput(header))[2]).out
                      /\ lineStart' = PrefixWrite(StrRemote, lineStart,
                                                  Unwrap(SplitOutput(header))[2]).atStart
                      /\ kpc' = "done"
                 ELSE /\ kpc' = "panic"
                      /\ UNCHANGED <<response, diag, lineStart>>
    /\ UNCHANGED <<content_type, comp_len, comp, payload>>
    /\ UNCHANGED <<opc, kind, caps, chain, fed, served>>
    /\ UNCHANGED command
    /\ UNCHANGED notCmdVars

\* The content types of an answer.
TypeMercurial01 == Some("application/mercurial-0.1")
TypeMercurial02 == Some("application/mercurial-0.2")
TypeHgError == Some("application/hg-error")
ContentTypes == { TypeMercurial01, TypeMercurial02, TypeHgError, Some("text/html"), None }

\* b"zstd", b"zlib", b"none", b"bzip2"
StrZstd == <<122, 115, 116, 100>>
StrZlib == <<122, 108, 105, 98>>
StrNone == <<110, 111, 110, 101>>
StrBzip2 == <<98, 122, 105, 112, 50>>

\* What a server may answer getbundle with: a length, a name and a payload,
\* with each known name, with no payload, with a name of no byte, with an
\* unknown name, with less name than the length says; nothing; and two
\* lines of an error.
ChangegroupBodies ==
    { <<4>> \o StrNone \o <<1, 2>>, <<4>> \o StrNone, <<0, 1>>, <<0>>,
      <<4>> \o StrZlib \o <<7>>, <<4>> \o StrZstd \o <<9>>, <<5>> \o StrBzip2,
      <<4, 103, 122, 105, 112, 1>>, <<4, 122, 108, 105>>, <<5>> \o StrNone \o <<1>>,
      <<>>, <<97, LF, 98, LF>> }

\* A match that takes a name of no byte for "none".
IsCodecOrEmpty(c) == c \in {StrZstd, StrZlib, StrNone, StrBzip2, <<>>}

\* changegroup_command, lines 457-461: the names matched.
IsCodec(c) == c \in {StrZstd, StrZlib, StrNone, StrBzip2}

\* An answer to an error that gives the caller nothing.
ErrorReplyEmpty == <<>>

\* changegroup_command, line 468: what the caller is given for an error.
ErrorReply == StrErrLf

\* changegroup_command, lines 428-441: the request is executed.
ChangegroupCommand ==
    /\ kpc = "start"
    /\ command' = "getbundle"
    /\ content_type' \in ContentTypes
    /\ \E b \in ChangegroupBodies :
         /\ served' = b
         /\ \E cs \in Pieces(b, MaxPieces) : http_resp' = [cursor |-> <<>>, chunks |-> cs]
    /\ kpc' = "cg_match"
    /\ UNCHANGED <<response, diag, lineStart, comp_len, comp, payload>>
    /\ UNCHANGED <<opc, header, kind, caps, chain, fed>>
    /\ UNCHANGED notCmdVars

\* changegroup_command, lines 443-474: the match on the content type.
MatchContentType ==
    /\ kpc = "cg_match"
    /\ IF content_type = TypeMercurial01
       THEN /\ comp' = StrZlib /\ kpc' = "cg_decode" /\ UNCHANGED response
       ELSE IF content_type = TypeMercurial02
       THEN /\ kpc' = "cg_len" /\ UNCHANGED <<comp, response>>
       ELSE IF content_type = TypeHgError
       THEN /\ response' = response \o ErrorReply
            /\ kpc' = "cg_error" /\ UNCHANGED comp
       ELSE /\ kpc' = "panic" /\ UNCHANGED <<comp, response>>
    /\ UNCHANGED <<content_type, diag, lineStart, comp_len, payload>>
    /\ UNCHANGED openVars
    /\ UNCHANGED command
    /\ UNCHANGED notCmdVars

\* changegroup_command, line 449: read_u8().unwrap().
ReadCompLen ==
    /\ kpc = "cg_len"
    /\ IF ResponseRead(http_resp, 1).out = <<>>
       THEN /\ kpc' = "panic"
            /\ UNCHANGED <<comp_len, http_resp>>
       ELSE /\ comp_len' = ResponseRead(http_resp, 1).out[1]
            /\ http_resp' = ResponseRead(http_resp, 1).resp
            /\ kpc' = "cg_comp"
    /\ UNCHANGED <<content_type, response, diag, lineStart, comp, payload>>
    /\ UNCHANGED <<opc, header, kind, caps, chain, fed, served>>
    /\ UNCHANGED command
    /\ UNCHANGED notCmdVars

\* changegroup_command, lines 450-464: one read of take(comp_len) by
\* read_to_end; when the name is whole, or the answer ends, the name is
\* matched, and an unknown name dies.
ReadComp ==
    /\ kpc = "cg_comp"
    /\ IF Len(comp) = comp_len \/ ResponseRead(http_resp, comp_len - Len(comp)).out = <<>>
       THEN /\ kpc' = IF IsCodec(comp) THEN "cg_decode" ELSE "die"
            /\ UNCHANGED <<comp, http_resp>>
       ELSE /\ comp' = comp \o ResponseRead(http_resp, comp_len - Len(comp)).out
            /\ http_resp' = ResponseRead(http_resp, comp_len - Len(comp)).resp
            /\ UNCHANGED kpc
    /\ UNCHANGED <<content_type, response, diag, lineStart, comp_len, payload>>
    /\ UNCHANGED <<opc, header, kind, caps, chain, fed, served>>
    /\ UNCHANGED command
    /\ UNCHANGED notCmdVars

\* changegroup_command, lines 446 and 465: one read of the decoder from the
\* response. Without compression what is read is written to out; what the
\* decoders of zlib, zstd and bzip2 write is left out.
DecodeStep ==
    /\ kpc = "cg_decode"
    /\ \E n \in BufSizes :
         IF ResponseRead(http_resp, n).out = <<>>
         THEN /\ kpc' = "done"
              /\ UNCHANGED <<payload, response, http_resp>>
         ELSE /\ payload' = payload \o ResponseRead(http_resp, n).out
              /\ response' = IF comp = StrNone
                              THEN response \o ResponseRead(http_resp, n).out
                              ELSE response
              /\ http_resp' = ResponseRead(http_resp, n).resp
              /\ UNCHANGED kpc
    /\ UNCHANGED <<content_type, diag, lineStart, comp_len, comp>>
    /\ UNCHANGED <<opc, header, kind, caps, chain, fed, served>>
    /\ UNCHANGED command
    /\ UNCHANGED notCmdVars

\* changegroup_command, lines 471-472: one read of copy into the writer that
\* puts "remote: " before the lines.
CopyError ==
    /\ kpc = "cg_error"
    /\ \E n \in BufSizes :
         IF ResponseRead(http_resp, n).out = <<>>
         THEN /\ kpc' = "done"
              /\ UNCHANGED <<diag, lineStart, http_resp>>
         ELSE /\ diag' = diag \o PrefixWrite(StrRemote, lineStart,
                                             ResponseRead(http_resp, n).out).out
              /\ lineStart' = PrefixWrite(StrRemote, lineStart,
                                          ResponseRead(http_resp, n).out).atStart
              /\ http_resp' = ResponseRead(http_resp, n).resp
              /\ UNCHANGED kpc
    /\ UNCHANGED <<content_type, response, comp_len, comp, payload>>
    /\ UNCHANGED <<opc, header, kind, caps, chain, fed, served>>
    /\ UNCHANGED command
    /\ UNCHANGED notCmdVars

CmdNext ==
    \/ PushCommand \/ PushReadAtMost \/ PushCopyBundle \/ PushReadToEnd
    \/ ChangegroupCommand \/ MatchContentType \/ ReadCompLen \/ ReadComp
    \/ DecodeStep \/ CopyError

SpecCommand == CmdInit /\ [][CmdNext]_vars

\* The lines of a byte string, each with its line feed if it has one.
RECURSIVE LinesWithTerminator(_)
LinesWithTerminator(b) ==
    IF b = <<>> THEN <<>>
    ELSE IF \E i \in 1..Len(b) : b[i] = LF
    THEN Bind(CHOOSE i \in 1..Len(b) : b[i] = LF /\ \A j \in 1..(i - 1) : b[j] # LF,
              LAMBDA i : <<Take(b, i)>> \o LinesWithTerminator(Drop(b, i)))
    ELSE <<b>>

\* Each line behind "remote: ".
Remote(b) ==
    Concat([i \in 1..Len(LinesWithTerminator(b)) |->
              StrRemote \o LinesWithTerminator(b)[i]])

\* C21: a push whose answer starts with HG20 gives the caller the whole
\* answer and nothing to the diagnostic stream; any other answer with a line
\* feed gives the caller what is before the first line feed and the
\* diagnostic stream the lines after it, each behind "remote: "; an answer
\* without line feed ends in a panic, and the caller is given nothing.
C21_PushOutput ==
    /\ (kpc \in {"done", "panic"} /\ command = "unbundle") =>
         IF Len(served) >= 4 /\ SubSeq(served, 1, 4) = StrHG20
         THEN kpc = "done" /\ response = served /\ diag = <<>>
         ELSE IF \E i \in 1..Len(served) : served[i] = LF
         THEN \E i \in 1..Len(served) :
                /\ served[i] = LF
                /\ \A j \in 1..(i - 1) : served[j] # LF
                /\ kpc = "done"
                /\ response = SubSeq(served, 1, i - 1)
                /\ diag = Remote(SubSeq(served, i + 1, Len(served)))
         ELSE kpc = "panic" /\ response = <<>> /\ diag = <<>>
    /\ (kpc = "done" /\ command = "unbundle"
        /\ served = <<97, 98, 99, LF, 100, 101, 102, LF>>)
         => (response = <<97, 98, 99>> /\ diag = StrRemote \o <<100, 101, 102, LF>>)

\* The answer "abc LF def LF" has been read to its end.
C21_AbcDef ==
    /\ kpc = "done"
    /\ command = "unbundle"
    /\ served = <<97, 98, 99, LF, 100, 101, 102, LF>>
    /\ response = <<97, 98, 99>>
    /\ diag # <<>>

\* The name the answer gives: the bytes after the first, as many as it says.
NamedCodec == SubSeq(served, 2, Min(1 + served[1], Len(served)))

\* The bytes of the answer after the name.
AfterCodec == SubSeq(served, 2 + served[1], Len(served))

\* C22: in an answer of type application/mercurial-0.2 that is not empty, the
\* name matched is made of the bytes that follow the first, as many as the
\* first says; with a known name the decoder reads the bytes after the name,
\* all of them by the end, and without compression the caller is given them,
\* nothing when there are none; with any other name, that of no byte
\* included, the command dies and the caller has been given nothing.
C22_CodecFraming ==
    (command = "getbundle" /\ content_type = TypeMercurial02 /\ served # <<>>
     /\ kpc \in {"cg_decode", "done", "die", "panic"})
        => /\ comp = NamedCodec
           /\ IF NamedCodec \in {StrZstd, StrZlib, StrNone, StrBzip2}
              THEN /\ kpc \in {"cg_decode", "done"}
                   /\ payload = SubSeq(AfterCodec, 1, Len(payload))
                   /\ kpc = "done" => payload = AfterCodec
                   /\ comp = StrNone => response = payload
              ELSE kpc = "die" /\ response = <<>> /\ payload = <<>>

\* The command has died of a name of no byte.
C22_EmptyNameDies ==
    /\ kpc = "die"
    /\ content_type = TypeMercurial02
    /\ served = <<0, 1>>
    /\ comp = <<>>

\* An answer without compression and without payload has been read.
C22_NoneEmptyPayload ==
    /\ kpc = "done"
    /\ content_type = TypeMercurial02
    /\ served = <<4>> \o StrNone
    /\ response = <<>>

\* C23: for an answer of type application/hg-error the caller is given
\* "err LF" and nothing else, and at the end the diagnostic stream has every
\* line of the answer behind "remote: "; for an answer of another type than
\* the three, or of none, the command panics and the caller is given nothing.
C23_ErrorAndUnknownTypes ==
    /\ (command = "getbundle" /\ content_type = TypeHgError
        /\ kpc \in {"cg_error", "done"})
         => /\ response = StrErrLf
            /\ kpc = "done" => diag = Remote(served)
    /\ (command = "getbundle" /\ kpc # "cg_match"
        /\ content_type \notin {TypeMercurial01, TypeMercurial02, TypeHgError})
         => (kpc = "panic" /\ response = <<>>)

\* The two lines of an error have gone to the diagnostic stream.
C23_ErrorCopied ==
    /\ kpc = "done"
    /\ content_type = TypeHgError
    /\ served = <<97, LF, 98, LF>>
    /\ diag = StrRemote \o <<97, LF>> \o StrRemote \o <<98, LF>>

-----------------------------------------------------------------------------
(* RawGitChangesetMetadata::parse (store.rs): a metadata blob is parsed and *)
(* the changeset is reconstructed of a commit and the parsed metadata.      *)

\* The most lines of a metadata blob.
MaxLines == 2

StrChangeset == <<99, 104, 97, 110, 103, 101, 115, 101, 116>>
StrManifest == <<109, 97, 110, 105, 102, 101, 115, 116>>
StrAuthor == <<97, 117, 116, 104, 111, 114>>
StrExtra == <<101, 120, 116, 114, 97>>
StrFiles == <<102, 105, 108, 101, 115>>
StrPatch == <<112, 97, 116, 99, 104>>

\* parse, lines 88-93: no line read yet.
NoFields ==
    [changeset |-> None, manifest |-> None, author |-> None, extra |-> None,
     files |-> None, patch |-> None]

\* A parse that would skip the lines whose key it does not know.
UnknownKeyIgnored(acc) == Some(acc)

\* parse, line 102: any other key.
UnknownKey(acc) == None

\* parse, lines 95-103: one line. None where the ? leaves the function.
ParseLine(acc, line) ==
    Bind(SplitnExact(line, 2, <<SP>>), LAMBDA kv :
        IF IsNone(kv) THEN None
        ELSE Bind(Unwrap(kv)[2], LAMBDA v :
             CASE Unwrap(kv)[1] = StrChangeset ->
                    IF IsNone(HgIdFromBytes(v)) THEN None
                    ELSE Some([acc EXCEPT !.changeset = HgIdFromBytes(v)])
               [] Unwrap(kv)[1] = StrManifest ->
                    IF IsNone(HgIdFromBytes(v)) THEN None
                    ELSE Some([acc EXCEPT !.manifest = HgIdFromBytes(v)])
               [] Unwrap(kv)[1] = StrAuthor -> Some([acc EXCEPT !.author = Some(v)])
               [] Unwrap(kv)[1] = StrExtra -> Some([acc EXCEPT !.extra = Some(v)])
               [] Unwrap(kv)[1] = StrFiles -> Some([acc EXCEPT !.files = Some(v)])
               [] Unwrap(kv)[1] = StrPatch -> Some([acc EXCEPT !.patch = Some(v)])
               [] OTHER -> UnknownKey(acc)))

\* parse, lines 94-104: the loop over the lines.
RECURSIVE ParseLines(_, _)
ParseLines(acc, lines) ==
    IF lines = <<>> THEN Some(acc)
    ELSE Bind(ParseLine(acc, lines[1]), LAMBDA next :
             IF IsNone(next) THEN None ELSE ParseLines(Unwrap(next), Tail(lines)))

\* parse, lines 106-113: the record, None without changeset.
MetadataOf(f) ==
    IF IsNone(f.changeset) THEN None
    ELSE Some([changeset_id |-> Unwrap(f.changeset),
               manifest_id |-> IF IsSome(f.manifest) THEN Unwrap(f.manifest)
                               ELSE NullManifest,
               author |-> f.author,
               extra |-> f.extra,
               files |-> f.files,
               patch |-> f.patch])

\* RawGitChangesetMetadata::parse
MetadataParse(b) ==
    Bind(ParseLines(NoFields, Lines(b)), LAMBDA f :
        IF IsNone(f) THEN None ELSE MetadataOf(Unwrap(f)))

\* Lines of a blob: "changeset 11", "changeset 1g", "changeset", "manifest 22",
\* "manifest 2", "author B", "extra b:x", "extra x", "extra ", "files f",
\* "patch ", "patch 0,x", "patch 0,0,x", "bogus 1".
BlobLines ==
    { StrChangeset \o <<SP, 49, 49>>, StrChangeset \o <<SP, 49, 103>>, StrChangeset,
      StrManifest \o <<SP, 50, 50>>, StrManifest \o <<SP, 50>>,
      StrAuthor \o <<SP, 66>>,
      StrExtra \o <<SP, 98, COLON, 120>>, StrExtra \o <<SP, 120>>, StrExtra \o <<SP>>,
      StrFiles \o <<SP, 102>>,
      StrPatch \o <<SP>>, StrPatch \o <<SP, 48, COMMA, 120>>,
      StrPatch \o <<SP, 48, COMMA, 48, COMMA, 120>>,
      <<98, 111, 103, 117, 115, SP, 49>> }

\* The blobs: the empty one, and up to MaxLines lines, with or without the
\* last line's terminator.
Blobs ==
    {<<>>} \cup
    UNION { { Join(ls, <<LF>>) \o t : ls \in [1..n -> BlobLines], t \in {<<>>, <<LF>>} } :
            n \in 1..MaxLines }

\* The commits: the committer is the author or not.
BlobCommits ==
    { [author |-> [who |-> WhoA, time |-> <<49>>, tz |-> TzUtc],
       committer |-> cm, body |-> <<109>>, parents |-> <<>>] : cm \in Idents }

-----------------------------------------------------------------------------
(* ChangesetExtra on its own: set() calls, dump_into, and from() of the     *)
(* dump.                                                                    *)

\* The most set() calls.
MaxSets == 3

\* Keys "a", "b" and "a:b"; values "1", "2" and "1 NUL a:3".
ExtraKeys == { <<97>>, <<98>>, <<97, COLON, 98>> }
ExtraValues == { <<49>>, <<50>>, <<49, NUL, 97, COLON, 51>> }

CodecInit ==
    /\ commit \in BlobCommits
    /\ raw = <<>> /\ node = <<>> /\ meta = None /\ via = "none"
    /\ text = <<>> /\ pretext = <<>> /\ tested = <<>> /\ popped = {}
    /\ result = Ok(None)
    /\ \/ blob \in Blobs /\ spc = "blob" /\ xpc = "off"
       \/ blob = <<>> /\ spc = "idle" /\ xpc = "set"
    /\ sets = <<>> /\ xdata = ExtraNew /\ dumped = None /\ redumped = None
    /\ NotCodecIdle

\* RawGitChangesetMetadata::parse of the blob.
DoParseBlob ==
    /\ spc = "blob"
    /\ meta' = MetadataParse(blob)
    /\ via' = "parse"
    /\ spc' = IF IsSome(meta') THEN "meta" ELSE "done"
    /\ UNCHANGED <<commit, raw, node, text, pretext, tested, popped, result>>
    /\ UNCHANGED codecVars
    /\ UNCHANGED notCodecVars

\* ChangesetExtra::set
DoExtraSet ==
    /\ xpc = "set"
    /\ Len(sets) < MaxSets
    /\ \E k \in ExtraKeys, v \in ExtraValues :
         /\ xdata' = ExtraSet(xdata, k, v)
         /\ sets' = Append(sets, <<k, v>>)
    /\ UNCHANGED <<blob, dumped, redumped, xpc>>
    /\ UNCHANGED storeVars
    /\ UNCHANGED notCodecVars

\* ChangesetExtra::dump_into
DoExtraDump ==
    /\ xpc = "set"
    /\ dumped' = Some(ExtraDump(xdata))
    /\ xpc' = "dumped"
    /\ UNCHANGED <<blob, sets, xdata, redumped>>
    /\ UNCHANGED storeVars
    /\ UNCHANGED notCodecVars

\* ChangesetExtra::from of the dump, and dump_into of that.
DoExtraFrom ==
    /\ xpc = "dumped"
    /\ \E r \in {ExtraFrom(Unwrap(dumped))} :
         IF IsPanic(r) THEN /\ xpc' = "panic"
                            /\ UNCHANGED redumped
         ELSE /\ redumped' = Some(ExtraDump(r.val))
              /\ xpc' = "done"
    /\ UNCHANGED <<blob, sets, xdata, dumped>>
    /\ UNCHANGED storeVars
    /\ UNCHANGED notCodecVars

CodecNext ==
    \/ DoParseBlob \/ DoSynthesize \/ DoLoopIter
    \/ DoExtraSet \/ DoExtraDump \/ DoExtraFrom

SpecCodec == CodecInit /\ [][CodecNext]_vars

-----------------------------------------------------------------------------
(* Properties of the metadata parse.                                       *)

\* The line has a space: its key and its value.
HasSpace(l) == \E i \in 1..Len(l) : l[i] = SP
KeyEnd(l) == CHOOSE i \in 1..Len(l) : l[i] = SP /\ \A j \in 1..(i - 1) : l[j] # SP
KeyOf(l) == SubSeq(l, 1, KeyEnd(l) - 1)
ValueOf(l) == SubSeq(l, KeyEnd(l) + 1, Len(l))

MetadataKeys == {StrChangeset, StrManifest, StrAuthor, StrExtra, StrFiles, StrPatch}

\* A line that makes the parse fail.
BadLine(l) ==
    \/ ~HasSpace(l)
    \/ KeyOf(l) \notin MetadataKeys
    \/ /\ KeyOf(l) \in {StrChangeset, StrManifest}
       /\ \/ Len(ValueOf(l)) # HexLen
          \/ \E i \in 1..Len(ValueOf(l)) : ~IsHexDigit(ValueOf(l)[i])

HasLine(b, k) ==
    \E i \in 1..Len(Lines(b)) : HasSpace(Lines(b)[i]) /\ KeyOf(Lines(b)[i]) = k

\* C24: the parse of a metadata blob gives nothing when a line has a key
\* outside changeset, manifest, author, extra, files and patch, when a line
\* has no space, when the value of a changeset or manifest line is not an
\* hg id, or when there is no changeset line, and a record otherwise; the
\* record of a blob without manifest line has the null manifest id.
C24_ParseFailsAsWhole ==
    via = "parse" =>
        /\ IsNone(meta) <=>
             \/ \E i \in 1..Len(Lines(blob)) : BadLine(Lines(blob)[i])
             \/ ~HasLine(blob, StrChangeset)
        /\ (IsSome(meta) /\ ~HasLine(blob, StrManifest))
             => Unwrap(meta).manifest_id = NullManifest

\* A blob of a changeset line and a line of unknown key has been refused.
C24_UnknownKeyRefused ==
    /\ via = "parse"
    /\ blob = StrChangeset \o <<SP, 49, 49, LF, 98, 111, 103, 117, 115, SP, 49>>
    /\ IsNone(meta)

\* A blob of a changeset line alone has been parsed.
C24_NoManifestLine ==
    /\ via = "parse"
    /\ blob = StrChangeset \o <<SP, 49, 49>>
    /\ IsSome(meta)
    /\ Unwrap(meta).manifest_id = NullManifest

-----------------------------------------------------------------------------
(* Properties of the reconstruction from a parsed metadata.                *)

\* An entry of the extra field has no ':'.
MalformedExtra(m) ==
    /\ IsSome(m.extra)
    /\ Unwrap(m.extra) # <<>>
    /\ \E i \in 1..Len(Split(Unwrap(m.extra), <<NUL>>)) :
           \A j \in 1..Len(Split(Unwrap(m.extra), <<NUL>>)[i]) :
               Split(Unwrap(m.extra), <<NUL>>)[i][j] # COLON

\* A part of the patch field is not start,end,data with two numbers.
MalformedPatch(m) ==
    /\ IsSome(m.patch)
    /\ \E i \in 1..Len(Split(Unwrap(m.patch), <<NUL>>)) :
           IsNone(PatchPart(Split(Unwrap(m.patch), <<NUL>>)[i]))

\* from_metadata has been called with the parsed metadata and is over.
ParsedAndRebuilt == via = "parse" /\ IsSome(meta) /\ spc \in {"done", "returned"}

\* C25: the reconstruction of a changeset from a metadata whose extra field
\* has an entry without ':' or whose patch field is empty or has a malformed
\* part returns nothing to the caller, and the process goes on.
C25_MalformedYieldsAbsent ==
    (ParsedAndRebuilt /\ (MalformedExtra(Unwrap(meta)) \/ MalformedPatch(Unwrap(meta))))
        => result = Ok(None)

\* The part of C25 that holds: a metadata whose extra field is well formed
\* and whose patch field is empty or has a malformed part gives nothing.
C25_MalformedPatchAbsent ==
    (ParsedAndRebuilt /\ ~MalformedExtra(Unwrap(meta)) /\ MalformedPatch(Unwrap(meta)))
        => result = Ok(None)

\* The metadata "changeset 11 LF extra x" has made from_metadata panic.
C25_ExtraWithoutColonPanics ==
    /\ ParsedAndRebuilt
    /\ blob = StrChangeset \o <<SP, 49, 49, LF>> \o StrExtra \o <<SP, 120>>
    /\ result = Panic

\* The date line of a changeset: its third line.
DateLine(t) == Split(t, <<LF>>)[3]

\* from_metadata has made the changeset bytes of the parsed metadata, which
\* has no patch.
Synthesized == via = "parse" /\ IsSome(meta) /\ pretext # <<>> /\ IsNone(Unwrap(meta).patch)

CommitterIsAuthor == GitIdentBytes(commit.author) = GitIdentBytes(commit.committer)

\* C26 as stated: whenever the extras to emit are empty (the extra field is
\* absent or empty, and there is no committer to add), the date line is
\* 'timestamp SP utcoffset' and nothing more.
C26_NoSpaceWhenExtrasEmpty ==
    (Synthesized /\ CommitterIsAuthor /\ Unwrap(meta).extra \in {None, Some(<<>>)})
        => DateLine(pretext) = <<49, SP, 48>>

\* C26, amended: the date line is 'timestamp SP utcoffset', followed by a
\* space exactly when there is an extra to emit, that is when the metadata
\* has an extra field, even an empty one, or the committer is not the
\* author; an extra field present but empty, with no committer to add,
\* gives 'timestamp SP utcoffset SP', an absent one 'timestamp SP utcoffset'.
C26_SpaceIffExtraPresent ==
    Synthesized =>
        /\ Take(DateLine(pretext), 3) = <<49, SP, 48>>
        /\ (IsSome(Unwrap(meta).extra) \/ ~CommitterIsAuthor)
             <=> (Len(DateLine(pretext)) >= 4 /\ DateLine(pretext)[4] = SP)
        /\ (CommitterIsAuthor /\ IsNone(Unwrap(meta).extra))
             => DateLine(pretext) = <<49, SP, 48>>
        /\ (CommitterIsAuthor /\ Unwrap(meta).extra = Some(<<>>))
             => DateLine(pretext) = <<49, SP, 48, SP>>

\* The metadata "changeset 11 LF extra " has given a date line that ends in
\* a space.
C26_EmptyExtraTrailingSpace ==
    /\ Synthesized /\ CommitterIsAuthor
    /\ blob = StrChangeset \o <<SP, 49, 49, LF>> \o StrExtra \o <<SP>>
    /\ DateLine(pretext) = <<49, SP, 48, SP>>

-----------------------------------------------------------------------------
(* Properties of ChangesetExtra.                                           *)

\* The keys set so far, and the value each was last set to.
KeysSet == {sets[i][1] : i \in 1..Len(sets)}
LastSet(k) ==
    sets[CHOOSE i \in 1..Len(sets) :
             sets[i][1] = k /\ \A j \in (i + 1)..Len(sets) : sets[j][1] # k][2]

\* The keys set so far, in ascending order of their bytes.
KeysAscending ==
    CHOOSE ks \in [1..Cardinality(KeysSet) -> KeysSet] :
        \A i \in 1..Len(ks) : \A j \in (i + 1)..Len(ks) : LexLess(ks[i], ks[j])

\* Each key once with the value of its last set, as key:value entries
\* separated by a null byte, in ascending order of the keys.
EntriesAscending ==
    Join([i \in 1..Len(KeysAscending) |->
            KeysAscending[i] \o <<COLON>> \o LastSet(KeysAscending[i])],
         <<NUL>>)

\* No key set so far holds ':' or a null byte, and no value a null byte.
PlainEntries ==
    \A i \in 1..Len(sets) :
        /\ \A j \in 1..Len(sets[i][1]) : sets[i][1][j] \notin {COLON, NUL}
        /\ \A j \in 1..Len(sets[i][2]) : sets[i][2][j] # NUL

\* C27 as stated: after any set() calls the dump is each key once with its
\* last value, in ascending key order, and parsing the dump and dumping
\* again gives the same bytes.
C27_RoundTripAnySets ==
    /\ IsSome(dumped) => Unwrap(dumped) = EntriesAscending
    /\ xpc \in {"done", "panic"} => (xpc = "done" /\ redumped = dumped)

\* C27, amended: after any set() calls the dump is each key once with its
\* last value, in ascending key order; parsing the dump and dumping again
\* gives the same bytes when no key holds ':' or a null byte and no value a
\* null byte.
C27_DumpSortedRoundTrip ==
    /\ IsSome(dumped) => Unwrap(dumped) = EntriesAscending
    /\ (xpc \in {"done", "panic"} /\ PlainEntries)
         => (xpc = "done" /\ redumped = dumped)

\* b, a and b again have been set: the dump is "a:2 NUL b:2", and so is the
\* dump of its parse.
C27_SetTwiceDumped ==
    /\ xpc = "done"
    /\ sets = << <<<<98>>, <<49>>>>, <<<<97>>, <<50>>>>, <<<<98>>, <<50>>>> >>
    /\ dumped = Some(<<97, COLON, 50, NUL, 98, COLON, 50>>)
    /\ redumped = dumped

-----------------------------------------------------------------------------
(* Properties of generate().                                               *)

\* from_metadata of the commit and the metadata without its patch.
WithoutPatch == FromMetadata(commit, [Unwrap(meta) EXCEPT !.patch = None])

\* C28: the metadata generate() gives has a patch exactly when the bytes
\* from_metadata makes of the commit and the metadata without patch are not
\* the raw changeset; when they are, the metadata has no patch and the
\* reconstruction from it returns the raw changeset.
C28_PatchIffDiffers ==
    (via = "generate" /\ IsSome(meta)) =>
        /\ IsSome(Unwrap(meta).patch) <=> WithoutPatch # Ok(Some(raw))
        /\ (IsNone(Unwrap(meta).patch) /\ Reconstructed) => result = Ok(Some(raw))

\* The changeset "11 LF A LF 1 0 LF LF m" of a commit whose committer is its
\* author has been given a metadata without patch and rebuilt.
C28_TrivialChangeset ==
    /\ via = "generate" /\ IsSome(meta) /\ Reconstructed
    /\ CommitterIsAuthor
    /\ raw = Repeat(49, HexLen) \o <<LF>> \o WhoA \o <<LF, 49, SP, 48, LF, LF, 109>>
    /\ IsNone(Unwrap(meta).patch)
    /\ result = Ok(Some(raw))

-----------------------------------------------------------------------------
(* The life of a head (SpecHeads).                                         *)

\* The changeset of the step's operation.
Operand == CsOf(lastOp'.cs)

\* The step is an add of a child of n on the branch of n.
AddsChildOf(n) ==
    /\ lastOp'.op = "add"
    /\ n \in ParentSet(Operand)
    /\ BranchOf(n) = BranchOf(Operand)

\* C29: a changeset becomes a head only through an add of it or a reset; it
\* stops being a head only through a remove of it, an add of a child of it on
\* its branch, or a reset; while it stays a head its ordinal changes only
\* through an add of it or a reset; an add of a changeset that is a head
\* keeps it a head, with an ordinal greater than its ordinal before and than
\* the ordinal of every other head; a remove leaves the counter and every
\* other head as they are, and the whole set when the changeset is not a
\* head.
C29_HeadLifecycle ==
    [][/\ \A n \in Changesets :
            /\ (IsNone(HeadsGet(heads, CsId(n))) /\ IsSome(HeadsGet(heads', CsId(n))))
                 => \/ lastOp'.op = "add" /\ Operand = n
                    \/ lastOp'.op = "reset"
            /\ (IsSome(HeadsGet(heads, CsId(n))) /\ IsNone(HeadsGet(heads', CsId(n))))
                 => \/ lastOp'.op = "remove" /\ Operand = n
                    \/ AddsChildOf(n)
                    \/ lastOp'.op = "reset"
            /\ (/\ IsSome(HeadsGet(heads, CsId(n)))
                /\ IsSome(HeadsGet(heads', CsId(n)))
                /\ HeadsGet(heads', CsId(n)) # HeadsGet(heads, CsId(n)))
                 => \/ lastOp'.op = "add" /\ Operand = n
                    \/ lastOp'.op = "reset"
       /\ (lastOp'.op = "add" /\ IsSome(HeadsGet(heads, lastOp'.cs)))
            => /\ cpc' = "run"
               /\ IsSome(HeadsGet(heads', lastOp'.cs))
               /\ Unwrap(HeadsGet(heads', lastOp'.cs)).generation
                    > Unwrap(HeadsGet(heads, lastOp'.cs)).generation
               /\ \A i \in 1..Len(heads') :
                    heads'[i].cs # lastOp'.cs
                      => heads'[i].generation
                           < Unwrap(HeadsGet(heads', lastOp'.cs)).generation
       /\ lastOp'.op = "remove"
            => /\ generation' = generation
               /\ IsNone(HeadsGet(heads', lastOp'.cs))
               /\ \A n \in Changesets :
                    n # Operand => HeadsGet(heads', CsId(n)) = HeadsGet(heads, CsId(n))
               /\ IsNone(HeadsGet(heads, lastOp'.cs)) => heads' = heads
      ]_vars

\* The root has been added while it was a head beside another: it is the
\* last of the heads, with a greater ordinal than it had.
C29_HeadAddedAgain ==
    /\ lastOp.op = "add" /\ lastOp.cs = CsId(1)
    /\ IsSome(lastOp.before)
    /\ Len(heads) = 2
    /\ Unwrap(HeadsGet(heads, CsId(1))).generation > Unwrap(lastOp.before).generation
    /\ Last(SortedHeads(heads)).cs = CsId(1)

\* A changeset that was not a head has been removed beside a head.
C29_AbsentRemoved ==
    /\ lastOp.op = "remove"
    /\ IsNone(lastOp.before)
    /\ Len(heads) = 1

-----------------------------------------------------------------------------
(* Progress of the header loop (SpecArgs).                                 *)

C30_EmptyHeaderPushed ==
    /\ httpheader = 11
    /\ apc = "loop"
    /\ Len(headers) = 1
    /\ headers[1][2] = <<>>
    /\ remaining = FormUrlencode(hgargs)
    /\ remaining # <<>>

-----------------------------------------------------------------------------
(* The ordinals of the heads (SpecHeads).                                  *)

\* C31: after any adds, removes, checkpoints and resets the ordinals of the
\* heads are pairwise distinct and each is below the counter, so the heads
\* sorted for a dump or a checkpoint ascend strictly by ordinal and no two
\* are ordered by their ids.
C31_OrdinalsDistinctBelowCounter ==
    /\ \A i, j \in 1..Len(heads) :
           i # j => heads[i].generation # heads[j].generation
    /\ \A i \in 1..Len(heads) : heads[i].generation < generation
    /\ \A i \in 1..(Len(heads) - 1) :
           SortedHeads(heads)[i].generation < SortedHeads(heads)[i + 1].generation

\* After a checkpoint and a reset a head has been added beside a reloaded
\* one: the ordinals differ and are below the counter.
C31_AddedBesideReloaded ==
    /\ lastOp.op = "add"
    /\ cpc = "run"
    /\ metadata # None
    /\ Len(heads) = 2
    /\ generation < assigned + 1
    /\ heads[1].generation # heads[2].generation

-----------------------------------------------------------------------------
(* The first message of the channel (SpecHttp).                            *)

RECURSIVE Infos(_)
\* The number of ResponseInfo messages a channel holds.
Infos(ch) ==
    IF ch = <<>> THEN 0
    ELSE (IF Head(ch).kind = "info" THEN 1 ELSE 0) + Infos(Tail(ch))

\* The step puts a ResponseInfo on the channel.
InfoSent == Infos(chan') > Infos(chan)

\* C32: in every attempt the worker sends one ResponseInfo, before any
\* chunk: the step that clears `first` puts the info on the channel, no
\* other step puts one, no chunk has been handed over before, and the worker
\* does not end with `first` set, whether the body is empty or the transfer
\* failed; as long as the info is to be sent the caller holds the receiver
\* and waits for its first message.
C32_OneInfoFirst ==
    /\ [][(first /\ ~first') => InfoSent]_vars
    /\ [][InfoSent => /\ first /\ ~first'
                      /\ chan = <<>> /\ sent = <<>>
                      /\ Head(chan').kind = "info"
                      /\ Head(chan').val = ResponseInfoOf(net)]_vars
    /\ [](wpc = "exited" => ~first)
    /\ []((wpc \in {"setup", "transfer"} /\ first)
             => (receiverAlive /\ hpc = "recv" /\ chan = <<>> /\ sent = <<>>))

\* A transfer without response has ended: the info is the only message, the
\* worker has failed and the caller has not received it yet.
C32_InfoAfterFailedTransfer ==
    /\ wpc = "exited"
    /\ hpc = "recv"
    /\ net.status = 0
    /\ net.result # HTTP_OK
    /\ sent = <<>>
    /\ Len(chan) = 1
    /\ chan[1].kind = "info"

-----------------------------------------------------------------------------
(* What execute_once gives the caller (SpecHttp).                          *)

\* The first message is a ResponseInfo whose status is below 300.
FirstIsGoodInfo ==
    /\ chan # <<>>
    /\ Head(chan).kind = "info"
    /\ Head(chan).val.http_status < 300

\* C33: the first recv() gives the caller the response exactly when the
\* first message is a ResponseInfo whose status is below 300, with that
\* info; otherwise the caller drains the channel, and it leaves the drain
\* only once the channel is empty and the worker has ended, with the
\* worker's result, which is never HTTP_OK, and with the request, for the
\* retry or the death of the process; the code after the join is not
\* reached.
C33_ResponseOnlyBelow300 ==
    /\ [][(hpc = "recv" /\ hpc' # "recv")
            => IF FirstIsGoodInfo
               THEN /\ hpc' = "reading"
                    /\ info' = Some(Head(chan).val)
                    /\ net.status < 300
               ELSE hpc' = "drain"]_vars
    /\ [][hpc' = "reading" => hpc \in {"recv", "reading"}]_vars
    /\ [](hpc = "drain" => (net.status >= 300 /\ net.result # HTTP_OK))
    /\ [][(hpc = "drain" /\ hpc' # "drain")
            => /\ chan = <<>> /\ ~senderAlive /\ wpc = "exited"
               /\ failures' = Append(failures, net.result)
               /\ req' = req
               /\ hpc' \in {"recv", "dead"}]_vars
    /\ [](hpc # "panic")

\* A redirect that is not followed has come back as status 302: the caller
\* has drained the channel and the process has died of the worker's error.
C33_RedirectNotFollowedDies ==
    /\ hpc = "dead"
    /\ net.status = 302
    /\ failures = <<2>>
    /\ info = None

====
